---- MODULE Spec2Model ----
(***************************************************************************)
(* Model of the flowbit memory agent: the four persisted memory stores     *)
(* (vendorMemory.json, correctionMemory.json, resolutionMemory.json,       *)
(* duplicateMemory.json), their load / mutate / save operations, and the   *)
(* two processInvoice pipelines built on them.                             *)
(*                                                                         *)
(* Confidence values are kept in thousandths (0.5 is 500) so that the      *)
(* one-decimal rounding Math.round(x * 10) / 10 is computed, not assumed.  *)
(* Each store is a function whose DOMAIN is the set of keys present in the *)
(* JSON file; an absent file is the empty function.  Timestamps            *)
(* (lastUpdated, firstSeenAt, audit timestamps) are not modelled.          *)
(***************************************************************************)
EXTENDS Integers, Sequences, FiniteSets, TLC

VARIABLES
    vendorMemory,      \* content of vendorMemory.json
    correctionMemory,  \* content of correctionMemory.json
    resolutionMemory,  \* content of resolutionMemory.json
    duplicateMemory,   \* content of duplicateMemory.json
    pre,               \* the four stores as they were when the last call began
    last,              \* the last call: its name, arguments and result
    calls,             \* per composite key, the checkAndRecordInvoice calls so far
    nOps,              \* number of calls made so far
    procs              \* per process, the call it is in the middle of

vars == <<vendorMemory, correctionMemory, resolutionMemory, duplicateMemory,
          pre, last, calls, nOps, procs>>

stores == <<vendorMemory, correctionMemory, resolutionMemory, duplicateMemory>>

----------------------------------------------------------------------------
(* Numbers of the program, in thousandths.                                 *)

One == 1000
Seed == 500
Reinforce == 100
Decay == 200
THRESHOLD == 600
Tenth == 100
HalfTenth == 50

(* Bounds of the model.                                                    *)

MaxStoreOps == 7
MaxDupOps == 5
MaxResOps == 6
MaxRunOps == 3
MaxLongOps == 5
MaxFaultOps == 3
MaxRaceOps == 4
MaxApproveOps == 3
MaxFrameOps == 3

----------------------------------------------------------------------------
(* Helpers on keyed stores.                                                *)

EmptyStore == <<>>

Has(memory, key) == key \in DOMAIN memory

Put(memory, key, rec) ==
    [k \in DOMAIN memory \cup {key} |-> IF k = key THEN rec ELSE memory[k]]

\* Math.round(x * 10) / 10 on a value in thousandths: nearest tenth, half up.
RoundTenth(x) == ((x + HalfTenth) \div Tenth) * Tenth

----------------------------------------------------------------------------
(* The file system as one call sees it: per store file, whether it can be  *)
(* read (exists-or-absent and parses) and whether it can be written.       *)

Files == {"vendorMemory.json", "correctionMemory.json",
          "resolutionMemory.json", "duplicateMemory.json"}

Healthy == [f \in Files |-> [readable |-> TRUE, writable |-> TRUE]]

\* try { readFileSync; JSON.parse } catch { return {} }
\* variant: a file that cannot be read still yields its content
LoadFileAnyway(env, name, file) == file

LoadFile(env, name, file) == IF env[name].readable THEN file ELSE EmptyStore

\* try { writeFileSync } catch { console.error }
\* variant: a failed write still leaves the new content in the file
SaveFileTorn(env, name, file, memory) == memory

SaveFile(env, name, file, memory) == IF env[name].writable THEN memory ELSE file

----------------------------------------------------------------------------
(* vendorMemory.ts                                                         *)

loadVendorMemory(env, file) == LoadFile(env, "vendorMemory.json", file)

saveVendorMemory(env, file, memory) == SaveFile(env, "vendorMemory.json", file, memory)

\* mutant: a reinforcement leaves the confidence where it was
ReinforcedConfidenceStuck(c) == c

\* mutant: the vendor reinforcement steps by the decay amount
ReinforcedConfidenceWrongStep(c) ==
    LET newConfidence == c + Decay
    IN  RoundTenth(IF newConfidence > One THEN One ELSE newConfidence)

ReinforcedConfidence(c) ==
    LET newConfidence == c + Reinforce
    IN  RoundTenth(IF newConfidence > One THEN One ELSE newConfidence)

\* the in-memory mutation of rememberVendorCorrection
\* mutant: a label that differs from the stored one starts again at the seed
VendorCorrectedRestarts(memory, vendorName, serviceDateLabel) ==
    IF Has(memory, vendorName)
    THEN Put(memory, vendorName,
             [serviceDateLabel |-> serviceDateLabel,
              confidence |->
                  IF memory[vendorName].serviceDateLabel = serviceDateLabel
                  THEN ReinforcedConfidence(memory[vendorName].confidence)
                  ELSE Seed])
    ELSE Put(memory, vendorName,
             [serviceDateLabel |-> serviceDateLabel, confidence |-> Seed])

VendorCorrected(memory, vendorName, serviceDateLabel) ==
    IF Has(memory, vendorName)
    THEN Put(memory, vendorName,
             [serviceDateLabel |-> serviceDateLabel,
              confidence |-> ReinforcedConfidence(memory[vendorName].confidence)])
    ELSE Put(memory, vendorName,
             [serviceDateLabel |-> serviceDateLabel, confidence |-> Seed])

rememberVendorCorrection(env, file, vendorName, serviceDateLabel) ==
    LET memory == loadVendorMemory(env, file)
    IN  saveVendorMemory(env, file, VendorCorrected(memory, vendorName, serviceDateLabel))

\* a null result of a get
NoRecord == [absent |-> TRUE]

getVendorMemory(env, file, vendorName) ==
    LET memory == loadVendorMemory(env, file)
    IN  IF Has(memory, vendorName) THEN memory[vendorName] ELSE NoRecord

----------------------------------------------------------------------------
(* correctionMemory.ts                                                     *)

loadCorrectionMemory(env, file) == LoadFile(env, "correctionMemory.json", file)

saveCorrectionMemory(env, file, memory) ==
    SaveFile(env, "correctionMemory.json", file, memory)

\* mutant: the cap at 1.0 is missing
ApprovedConfidenceUncapped(c) == RoundTenth(c + Reinforce)

ApprovedConfidence(c) ==
    LET newConfidence == c + Reinforce
    IN  RoundTenth(IF newConfidence > One THEN One ELSE newConfidence)

\* mutant: a new pattern is created already reinforced (0.5 + 0.1)
CorrectionApprovedSeedPlus(memory, patternId, description, action) ==
    IF Has(memory, patternId)
    THEN Put(memory, patternId,
             [memory[patternId] EXCEPT
                !.confidence = ApprovedConfidence(@),
                !.approvedCount = @ + 1])
    ELSE Put(memory, patternId,
             [patternId |-> patternId,
              description |-> description,
              action |-> action,
              confidence |-> Seed + Reinforce,
              approvedCount |-> 1,
              rejectedCount |-> 0])

\* mutant: a reinforcement also stores the description and action supplied
CorrectionApprovedOverwrites(memory, patternId, description, action) ==
    IF Has(memory, patternId)
    THEN Put(memory, patternId,
             [memory[patternId] EXCEPT
                !.description = description,
                !.action = action,
                !.confidence = ApprovedConfidence(@),
                !.approvedCount = @ + 1])
    ELSE Put(memory, patternId,
             [patternId |-> patternId,
              description |-> description,
              action |-> action,
              confidence |-> Seed,
              approvedCount |-> 1,
              rejectedCount |-> 0])

\* the in-memory mutation of rememberCorrectionApproval
CorrectionApproved(memory, patternId, description, action) ==
    IF Has(memory, patternId)
    THEN Put(memory, patternId,
             [memory[patternId] EXCEPT
                !.confidence = ApprovedConfidence(@),
                !.approvedCount = @ + 1])
    ELSE Put(memory, patternId,
             [patternId |-> patternId,
              description |-> description,
              action |-> action,
              confidence |-> Seed,
              approvedCount |-> 1,
              rejectedCount |-> 0])

rememberCorrectionApproval(env, file, patternId, description, action) ==
    LET memory == loadCorrectionMemory(env, file)
    IN  saveCorrectionMemory(env, file,
            CorrectionApproved(memory, patternId, description, action))

\* mutant: a rejection weighs as little as an approval
RejectedConfidenceWeak(c) ==
    LET newConfidence == c - Reinforce
    IN  RoundTenth(IF newConfidence < 0 THEN 0 ELSE newConfidence)

RejectedConfidence(c) ==
    LET newConfidence == c - Decay
    IN  RoundTenth(IF newConfidence < 0 THEN 0 ELSE newConfidence)

\* mutant: a rejection lowers the confidence but is not counted
CorrectionRejectedUncounted(memory, patternId) ==
    Put(memory, patternId,
        [memory[patternId] EXCEPT !.confidence = RejectedConfidence(@)])

\* the in-memory mutation of rememberCorrectionRejection (record present)
CorrectionRejected(memory, patternId) ==
    Put(memory, patternId,
        [memory[patternId] EXCEPT
           !.confidence = RejectedConfidence(@),
           !.rejectedCount = @ + 1])

\* mutant: rejecting an unknown pattern creates it at confidence 0
rememberCorrectionRejectionCreates(env, file, patternId) ==
    LET memory == loadCorrectionMemory(env, file)
    IN  IF Has(memory, patternId)
        THEN saveCorrectionMemory(env, file, CorrectionRejected(memory, patternId))
        ELSE saveCorrectionMemory(env, file,
                 Put(memory, patternId,
                     [patternId |-> patternId, description |-> "", action |-> "",
                      confidence |-> 0, approvedCount |-> 0, rejectedCount |-> 1]))

rememberCorrectionRejection(env, file, patternId) ==
    LET memory == loadCorrectionMemory(env, file)
    IN  IF Has(memory, patternId)
        THEN saveCorrectionMemory(env, file, CorrectionRejected(memory, patternId))
        ELSE file

\* mutant: no pattern record is ever found
getCorrectionMemoryBlind(env, file, patternId) == NoRecord

getCorrectionMemory(env, file, patternId) ==
    LET memory == loadCorrectionMemory(env, file)
    IN  IF Has(memory, patternId) THEN memory[patternId] ELSE NoRecord

----------------------------------------------------------------------------
(* resolutionMemory.ts                                                     *)

loadResolutionMemory(env, file) == LoadFile(env, "resolutionMemory.json", file)

saveResolutionMemory(env, file, memory) ==
    SaveFile(env, "resolutionMemory.json", file, memory)

\* mutant: an approval is written to a store of its own
ApprovalRecordedAlone(memory, memoryId) ==
    Put(EmptyStore, memoryId,
        [memoryId |-> memoryId, approvedCount |-> 1, rejectedCount |-> 0,
         lastDecision |-> "approved"])

ApprovalRecorded(memory, memoryId) ==
    IF Has(memory, memoryId)
    THEN Put(memory, memoryId,
             [memory[memoryId] EXCEPT
                !.approvedCount = @ + 1, !.lastDecision = "approved"])
    ELSE Put(memory, memoryId,
             [memoryId |-> memoryId, approvedCount |-> 1, rejectedCount |-> 0,
              lastDecision |-> "approved"])

recordApproval(env, file, memoryId) ==
    LET memory == loadResolutionMemory(env, file)
    IN  saveResolutionMemory(env, file, ApprovalRecorded(memory, memoryId))

\* mutant: a first rejection is filed as an approval
RejectionRecordedAsApproval(memory, memoryId) ==
    IF Has(memory, memoryId)
    THEN Put(memory, memoryId,
             [memory[memoryId] EXCEPT
                !.rejectedCount = @ + 1, !.lastDecision = "rejected"])
    ELSE Put(memory, memoryId,
             [memoryId |-> memoryId, approvedCount |-> 1, rejectedCount |-> 0,
              lastDecision |-> "rejected"])

RejectionRecorded(memory, memoryId) ==
    IF Has(memory, memoryId)
    THEN Put(memory, memoryId,
             [memory[memoryId] EXCEPT
                !.rejectedCount = @ + 1, !.lastDecision = "rejected"])
    ELSE Put(memory, memoryId,
             [memoryId |-> memoryId, approvedCount |-> 0, rejectedCount |-> 1,
              lastDecision |-> "rejected"])

recordRejection(env, file, memoryId) ==
    LET memory == loadResolutionMemory(env, file)
    IN  saveResolutionMemory(env, file, RejectionRecorded(memory, memoryId))

getResolutionStats(env, file, memoryId) ==
    LET memory == loadResolutionMemory(env, file)
    IN  IF Has(memory, memoryId) THEN memory[memoryId] ELSE NoRecord

----------------------------------------------------------------------------
(* duplicateMemory.ts                                                      *)

loadDuplicateMemory(env, file) == LoadFile(env, "duplicateMemory.json", file)

saveDuplicateMemory(env, file, memory) ==
    SaveFile(env, "duplicateMemory.json", file, memory)

\* `${vendor}|${invoiceNumber}|${invoiceDate}`
DuplicateKey(vendor, invoiceNumber, invoiceDate) ==
    vendor \o "|" \o invoiceNumber \o "|" \o invoiceDate

\* mutant: a repeat sighting overwrites the record instead of counting
InvoiceSeenOverwrites(memory, vendor, invoiceNumber, invoiceDate) ==
    LET duplicateKey == DuplicateKey(vendor, invoiceNumber, invoiceDate)
    IN  Put(memory, duplicateKey,
            [duplicateKey |-> duplicateKey, vendor |-> vendor,
             invoiceNumber |-> invoiceNumber, invoiceDate |-> invoiceDate,
             seenCount |-> IF Has(memory, duplicateKey) THEN 2 ELSE 1])

\* the in-memory mutation of checkAndRecordInvoice
InvoiceSeen(memory, vendor, invoiceNumber, invoiceDate) ==
    LET duplicateKey == DuplicateKey(vendor, invoiceNumber, invoiceDate)
    IN  IF Has(memory, duplicateKey)
        THEN Put(memory, duplicateKey,
                 [memory[duplicateKey] EXCEPT !.seenCount = @ + 1])
        ELSE Put(memory, duplicateKey,
                 [duplicateKey |-> duplicateKey, vendor |-> vendor,
                  invoiceNumber |-> invoiceNumber, invoiceDate |-> invoiceDate,
                  seenCount |-> 1])

\* mutant: the updated store is never written back
checkAndRecordInvoiceUnsaved(env, file, vendor, invoiceNumber, invoiceDate) ==
    LET memory == loadDuplicateMemory(env, file)
        duplicateKey == DuplicateKey(vendor, invoiceNumber, invoiceDate)
        updated == InvoiceSeen(memory, vendor, invoiceNumber, invoiceDate)
    IN  [file |-> file,
         isDuplicate |-> Has(memory, duplicateKey),
         seenCount |-> updated[duplicateKey].seenCount]

\* the file afterwards, and the returned { isDuplicate, seenCount }
checkAndRecordInvoice(env, file, vendor, invoiceNumber, invoiceDate) ==
    LET memory == loadDuplicateMemory(env, file)
        duplicateKey == DuplicateKey(vendor, invoiceNumber, invoiceDate)
        updated == InvoiceSeen(memory, vendor, invoiceNumber, invoiceDate)
    IN  [file |-> saveDuplicateMemory(env, file, updated),
         isDuplicate |-> Has(memory, duplicateKey),
         seenCount |-> updated[duplicateKey].seenCount]

\* mutant: only a repeated sighting counts as a duplicate
isDuplicateInvoiceRepeated(env, file, vendor, invoiceNumber, invoiceDate) ==
    LET memory == loadDuplicateMemory(env, file)
        duplicateKey == DuplicateKey(vendor, invoiceNumber, invoiceDate)
    IN  Has(memory, duplicateKey) /\ memory[duplicateKey].seenCount > 1

isDuplicateInvoice(env, file, vendor, invoiceNumber, invoiceDate) ==
    LET memory == loadDuplicateMemory(env, file)
    IN  Has(memory, DuplicateKey(vendor, invoiceNumber, invoiceDate))

----------------------------------------------------------------------------
(* One processInvoice run: the four stores as the run has left them so     *)
(* far, the InvoiceRunResult under construction, and the run's locals.     *)

\* a null string
Null == "null"

Falsy(s) == s = Null \/ s = ""

IsNull(rec) == "absent" \in DOMAIN rec

NoDupResult == [isDuplicate |-> FALSE, seenCount |-> 0]

BeginRun(st, normalizedInvoice) ==
    [vendor |-> st.vendor, correction |-> st.correction,
     resolution |-> st.resolution, duplicate |-> st.duplicate,
     result |-> [normalizedInvoice |-> normalizedInvoice,
                 proposedCorrections |-> <<>>,
                 requiresHumanReview |-> TRUE,
                 reasoning |-> "",
                 confidenceScore |-> 0,
                 memoryUpdates |-> <<>>,
                 auditTrail |-> <<>>],
     dupResult |-> NoDupResult,
     recalled |-> FALSE,
     vendorMem |-> NoRecord,
     correctionMem |-> NoRecord,
     consulted |-> <<>>,
     atRecall |-> NoRecord]

\* result.auditTrail.push({ step, timestamp, details })
Log(s, step, details) ==
    [s EXCEPT !.result.auditTrail = Append(@, [step |-> step, details |-> details])]

\* result.proposedCorrections.push(text)
Propose(s, text) == [s EXCEPT !.result.proposedCorrections = Append(@, text)]

\* what getCorrectionMemory(patternId) returned to a detector working on
\* line item `item` (0: the invoice as a whole)
Consulted(s, patternId, item, mem) ==
    [s EXCEPT !.consulted = Append(@, [patternId |-> patternId, item |-> item, mem |-> mem])]

\* result.memoryUpdates.push(text)
Updated(s, text) == [s EXCEPT !.result.memoryUpdates = Append(@, text)]

\* the store calls a run makes
\* variant: a rejection on file in the resolution store vetoes the reinforcement
RunRememberVendorCorrectionVetoed(env, s, vendorName, serviceDateLabel) ==
    IF \E id \in DOMAIN s.resolution : s.resolution[id].lastDecision = "rejected"
    THEN s
    ELSE [s EXCEPT !.vendor = rememberVendorCorrection(env, @, vendorName, serviceDateLabel)]

RunRememberVendorCorrection(env, s, vendorName, serviceDateLabel) ==
    [s EXCEPT !.vendor = rememberVendorCorrection(env, @, vendorName, serviceDateLabel)]

RunRememberCorrectionApproval(env, s, patternId, description, action) ==
    [s EXCEPT !.correction =
                  rememberCorrectionApproval(env, @, patternId, description, action)]

RunRecordApproval(env, s, memoryId) ==
    [s EXCEPT !.resolution = recordApproval(env, @, memoryId)]

RunCheckAndRecordInvoice(env, s, vendor, invoiceNumber, invoiceDate) ==
    LET dupResult ==
            checkAndRecordInvoice(env, s.duplicate, vendor, invoiceNumber, invoiceDate)
    IN  [s EXCEPT !.duplicate = dupResult.file,
                  !.dupResult = [isDuplicate |-> dupResult.isDuplicate,
                                 seenCount |-> dupResult.seenCount]]

QtyPattern == "QTY_MISMATCH_USE_DN_QTY"

ServiceDateId(vendor) == "VENDOR:" \o vendor \o ":serviceDateLabel"

----------------------------------------------------------------------------
(* processInvoice(vendor, invoiceNumber, invoiceDate, description,         *)
(* simulateHumanFeedback): the five-argument pipeline.                     *)

\* 2. Recall Phase
RecallPhase5(env, s, vendor) ==
    LET vendorMem == getVendorMemory(env, s.vendor, vendor)
        correctionMem == getCorrectionMemory(env, s.correction, QtyPattern)
        s1 == [s EXCEPT !.recalled = TRUE, !.vendorMem = vendorMem,
                        !.correctionMem = correctionMem,
                        \* the store files as the recall finds them
                        !.atRecall = [vendor |-> s.vendor, correction |-> s.correction,
                                      resolution |-> s.resolution]]
        s2 == IF ~IsNull(vendorMem)
              THEN Log(s1, "recall",
                       "Vendor Memory retrieved: label='" \o vendorMem.serviceDateLabel
                           \o "', confidence=" \o ToString(vendorMem.confidence))
              ELSE Log(s1, "recall", "No Vendor Memory found for '" \o vendor \o "'")
    IN  IF ~IsNull(correctionMem)
        THEN Log(s2, "recall",
                 "Correction Memory retrieved: pattern='" \o QtyPattern
                     \o "', confidence=" \o ToString(correctionMem.confidence))
        ELSE Log(s2, "recall",
                 "No Correction Memory found for pattern '" \o QtyPattern \o "'")

\* mutant: the vendor label also waits for the quantity pattern
ApplyVendor5NeedsPattern(s) ==
    LET vendorMem == s.vendorMem
        correctionMem == s.correctionMem
        vendorConfidence == IF IsNull(vendorMem) THEN 0 ELSE vendorMem.confidence
    IN  IF /\ ~IsNull(vendorMem) /\ vendorConfidence >= THRESHOLD
           /\ (IsNull(correctionMem) \/ correctionMem.confidence >= THRESHOLD)
        THEN Log([s EXCEPT !.result.normalizedInvoice.serviceDateLabel =
                               vendorMem.serviceDateLabel],
                 "apply", "Auto-applied serviceDateLabel")
        ELSE s

\* 3. Decision Phase: Decide on Vendor Normalization
ApplyVendor5(s) ==
    LET vendorMem == s.vendorMem
        vendorConfidence == IF IsNull(vendorMem) THEN 0 ELSE vendorMem.confidence
    IN  IF ~IsNull(vendorMem) /\ vendorConfidence >= THRESHOLD
        THEN Log([s EXCEPT !.result.normalizedInvoice.serviceDateLabel =
                               vendorMem.serviceDateLabel],
                 "apply",
                 "Auto-applied serviceDateLabel='" \o vendorMem.serviceDateLabel
                     \o "' (Confidence " \o ToString(vendorConfidence) \o " >= "
                     \o ToString(THRESHOLD) \o ")")
        ELSE s

\* 3. Decision Phase: Decide on Corrections
ApplyCorrection5(s) ==
    LET correctionMem == s.correctionMem
        correctionConfidence ==
            IF IsNull(correctionMem) THEN 0 ELSE correctionMem.confidence
    IN  IF ~IsNull(correctionMem) /\ correctionConfidence >= THRESHOLD
        THEN Log(Propose(s, correctionMem.action), "apply",
                 "Auto-suggested correction: " \o correctionMem.action)
        ELSE s

\* mutant: the run is auto-handled as soon as a vendor memory exists
FinalDecision5Lenient(s) ==
    LET vendorMem == s.vendorMem
        known == ~IsNull(vendorMem)
    IN  Log([s EXCEPT !.result.requiresHumanReview = ~known,
                      !.result.confidenceScore =
                          IF known THEN vendorMem.confidence ELSE @],
            "decide", "Decision")

\* mutant: the score of an auto-handled run is the vendor confidence alone
FinalDecision5VendorScore(s) ==
    LET vendorMem == s.vendorMem
        correctionMem == s.correctionMem
        vendorConfidence == IF IsNull(vendorMem) THEN 0 ELSE vendorMem.confidence
        correctionConfidence ==
            IF IsNull(correctionMem) THEN 0 ELSE correctionMem.confidence
        auto == /\ ~IsNull(vendorMem) /\ vendorConfidence >= THRESHOLD
                /\ (correctionConfidence >= THRESHOLD \/ IsNull(correctionMem))
    IN  Log([s EXCEPT !.result.requiresHumanReview = ~auto,
                      !.result.confidenceScore = vendorConfidence],
            "decide", "Decision")

\* 3. Decision Phase: Final Decision Status
FinalDecision5(s) ==
    LET vendorMem == s.vendorMem
        correctionMem == s.correctionMem
        vendorConfidence == IF IsNull(vendorMem) THEN 0 ELSE vendorMem.confidence
        correctionConfidence ==
            IF IsNull(correctionMem) THEN 0 ELSE correctionMem.confidence
        \* correctionConfidence || 1
        orOne == IF correctionConfidence = 0 THEN One ELSE correctionConfidence
        decided ==
            IF /\ vendorConfidence >= THRESHOLD
               /\ (correctionConfidence >= THRESHOLD \/ IsNull(correctionMem))
            THEN IF ~IsNull(vendorMem)
                 THEN [s EXCEPT
                         !.result.requiresHumanReview = FALSE,
                         !.result.reasoning = "All actions applied with high confidence.",
                         !.result.confidenceScore =
                             IF vendorConfidence < orOne THEN vendorConfidence ELSE orOne]
                 ELSE [s EXCEPT
                         !.result.requiresHumanReview = TRUE,
                         !.result.reasoning = "New vendor - requires setup."]
            ELSE [s EXCEPT
                    !.result.requiresHumanReview = TRUE,
                    !.result.reasoning = "Confidence below threshold or missing memory.",
                    !.result.confidenceScore =
                        IF ~IsNull(vendorMem) THEN vendorConfidence ELSE @]
    IN  Log(decided, "decide",
            "Decision: requiresHumanReview="
                \o ToString(decided.result.requiresHumanReview)
                \o ", reasoning='" \o decided.result.reasoning \o "'")

\* mutant: feedback is learnt from whether or not the run asked for review
LearningPhase5Always(env, s, vendor, simulateHumanFeedback) ==
    LET memId == ServiceDateId(vendor)
    IN  IF ~simulateHumanFeedback THEN s
        ELSE LET s1 == Log(s, "learn", "Human Feedback: Approved correct values.")
                 s2 == Updated(RunRememberVendorCorrection(env, s1, vendor, "Leistungsdatum"),
                               "Updated Vendor Memory for '" \o vendor \o "'")
                 s3 == Updated(RunRememberCorrectionApproval(env, s2, QtyPattern,
                                   "Quantity Mismatch", "Use Delivery Note Quantity"),
                               "Updated Correction Memory for '" \o QtyPattern \o "'")
             IN  Updated(RunRecordApproval(env, s3, memId),
                         "Recorded Approval for '" \o memId \o "'")

\* 4. Learning Phase (Simulated)
LearningPhase5(env, s, vendor, simulateHumanFeedback) ==
    LET memId == ServiceDateId(vendor)
    IN  IF ~simulateHumanFeedback THEN s
        ELSE IF s.result.requiresHumanReview
        THEN LET s1 == Log(s, "learn", "Human Feedback: Approved correct values.")
                 s2 == Updated(RunRememberVendorCorrection(env, s1, vendor, "Leistungsdatum"),
                               "Updated Vendor Memory for '" \o vendor \o "'")
                 s3 == Updated(RunRememberCorrectionApproval(env, s2, QtyPattern,
                                   "Quantity Mismatch", "Use Delivery Note Quantity"),
                               "Updated Correction Memory for '" \o QtyPattern \o "'")
             IN  Updated(RunRecordApproval(env, s3, memId),
                         "Recorded Approval for '" \o memId \o "'")
        ELSE Updated(RunRecordApproval(env, s, memId),
                     "Recorded System Success for '" \o memId \o "'")

\* mutant: a duplicate is processed like a first sighting
DuplicateExit5Never(s) == FALSE

\* if (dupResult.isDuplicate) { ...; return result; // Exit early }
DuplicateExit5(s) == s.dupResult.isDuplicate

\* 3. Decision Phase, in the order of the code
DecisionPhase5(s) == FinalDecision5(ApplyCorrection5(ApplyVendor5(s)))

processInvoice5(env, st, vendor, invoiceNumber, invoiceDate, description, simulateHumanFeedback) ==
    LET s0 == BeginRun(st, [vendor |-> vendor, invoiceNumber |-> invoiceNumber,
                            invoiceDate |-> invoiceDate, description |-> description,
                            serviceDateLabel |-> Null])
        \* 1. Duplicate Check
        s1 == RunCheckAndRecordInvoice(env, s0, vendor, invoiceNumber, invoiceDate)
    IN  IF DuplicateExit5(s1)
        THEN Log([s1 EXCEPT
                    !.result.requiresHumanReview = TRUE,
                    !.result.reasoning =
                        "Duplicate invoice detected (Seen "
                            \o ToString(s1.dupResult.seenCount) \o " times)"],
                 "duplicate_check",
                 "Duplicate key found. seenCount=" \o ToString(s1.dupResult.seenCount))
        ELSE LET s2 == Log(s1, "duplicate_check",
                           "Invoice is unique. Recorded in Duplicate Memory.")
                 s3 == RecallPhase5(env, s2, vendor)
                 s4 == DecisionPhase5(s3)
             IN  LearningPhase5(env, s4, vendor, simulateHumanFeedback)

----------------------------------------------------------------------------
(* Text of the invoices.  A rawText is the sequence of its lines;          *)
(* String.includes, toLowerCase and trim are given by their values on the  *)
(* strings that occur in the invoices, purchase orders and corrections.    *)

\* <<s, p>> is listed when s.includes(p)
Substrings ==
    {<<"2% Skonto if paid within 10 days ", "Skonto">>,
     <<"2% Skonto if paid within 10 days ", "paid within">>,
     <<"Prices incl. VAT", "Prices incl. VAT">>,
     <<"Prices incl. VAT", "VAT">>,
     <<"Total 100 EUR", "EUR">>,
     <<"Seefracht Hamburg", "Seefracht">>,
     <<"Transport Berlin", "Transport">>,
     <<"servicedate", "servicedate">>,
     <<"servicedatelabel", "servicedate">>,
     <<"quantity mismatch with delivery note", "quantity mismatch">>,
     <<"vat already included in totals", "vat">>,
     <<"currency missing", "currency">>}

Includes(s, p) == s = p \/ <<s, p>> \in Substrings

TextIncludes(rawText, p) == \E i \in 1..Len(rawText) : Includes(rawText[i], p)

\* s.toLowerCase()
LowerCase(s) ==
    CASE s = "serviceDate" -> "servicedate"
      [] s = "serviceDateLabel" -> "servicedatelabel"
      [] s = "Quantity mismatch with delivery note" ->
             "quantity mismatch with delivery note"
      [] s = "VAT already included in totals" -> "vat already included in totals"
      [] s = "Currency missing" -> "currency missing"
      [] s = "Vendor uses Leistungsdatum" -> "vendor uses leistungsdatum"
      [] s = "Wrong service date label" -> "wrong service date label"
      [] s = "Widget Supply" -> "widget supply"
      [] s = "Widget Supply " -> "widget supply "
      [] s = "Seefracht Hamburg" -> "seefracht hamburg"
      [] s = "Transport Berlin" -> "transport berlin"
      [] s = "Bolt M8" -> "bolt m8"
      [] OTHER -> s

\* s.trim()
Trim(s) ==
    CASE s = "widget supply " -> "widget supply"
      [] s = "2% Skonto if paid within 10 days " -> "2% Skonto if paid within 10 days"
      [] OTHER -> s

\* let purchaseOrders = loadPurchaseOrders()
purchaseOrders ==
    <<[poNumber |-> "PO-A-050", vendor |-> "Supplier GmbH",
       lineItems |-> <<[description |-> "Widget Supply "]>>],
      [poNumber |-> "PO-A-051", vendor |-> "Supplier GmbH",
       lineItems |-> <<[description |-> "Bolt M8"]>>],
      [poNumber |-> "PO-C-900", vendor |-> "Freight & Co",
       lineItems |-> <<[description |-> "Seefracht Hamburg"]>>]>>

\* --- VAT Detection ---
detectVATIncluded(vendor, rawText) ==
    IF vendor # "Parts AG" THEN FALSE
    ELSE \E p \in {"MwSt. inkl", "Prices incl. VAT", "VAT already included"} :
             TextIncludes(rawText, p)

\* --- Currency Inference ---
inferCurrencyFromRawText(rawText) ==
    IF TextIncludes(rawText, "EUR") THEN "EUR"
    ELSE IF TextIncludes(rawText, "USD") THEN "USD"
    ELSE IF TextIncludes(rawText, "GBP") THEN "GBP"
    ELSE Null

\* --- PO Matching ---
findMatchingPO(vendor, invoiceLineItems) ==
    LET Descriptions(items) ==
            {Trim(LowerCase(items[i].description)) : i \in 1..Len(items)}
        matching ==
            {i \in 1..Len(purchaseOrders) :
                /\ purchaseOrders[i].vendor = vendor
                /\ Descriptions(invoiceLineItems)
                       \subseteq Descriptions(purchaseOrders[i].lineItems)}
    IN  IF Cardinality(matching) = 1
        THEN purchaseOrders[CHOOSE i \in matching : TRUE]
        ELSE NoRecord

\* --- Skonto Detection (Freight & Co) ---
detectSkonto(vendor, rawText) ==
    LET hits == {i \in 1..Len(rawText) :
                    Includes(rawText[i], "Skonto") \/ Includes(rawText[i], "paid within")}
    IN  IF vendor # "Freight & Co" THEN Null
        ELSE IF hits = {} THEN Null
        ELSE Trim(rawText[CHOOSE i \in hits : \A j \in hits : i <= j])

\* --- Freight SKU Mapping ---
isFreightService(description) ==
    \E kw \in {"Seefracht", "Shipping", "Transport"} : Includes(description, kw)

----------------------------------------------------------------------------
(* processInvoice(invoice, simulateHumanFeedback): the invoice-object      *)
(* pipeline.  A line item is modelled by its description and sku.          *)

\* PO Matching
POMatching(env, s, invoice, simulateHumanFeedback) ==
    LET vendor == invoice.vendor
        matchedPO == findMatchingPO(vendor, invoice.fields.lineItems)
        poPatternId == "AUTO_PO_MATCH_SINGLE_CANDIDATE"
        poMem == getCorrectionMemory(env, s.correction, poPatternId)
    IN  IF ~Falsy(invoice.fields.poNumber) THEN s
        ELSE IF IsNull(matchedPO)
        THEN Log(s, "po_match", "No single matching PO found")
        ELSE LET s1 == Consulted(Log(s, "po_match",
                                     "Found single matching PO: " \o matchedPO.poNumber),
                                 poPatternId, 0, poMem)
                 s2 == IF ~IsNull(poMem) /\ poMem.confidence >= THRESHOLD
                       THEN Log(Propose([s1 EXCEPT !.result.normalizedInvoice.poNumber =
                                                       matchedPO.poNumber],
                                        "Set poNumber = " \o matchedPO.poNumber),
                                "apply",
                                "Auto-applied poNumber='" \o matchedPO.poNumber \o "'")
                       ELSE Propose(s1, "Set poNumber = " \o matchedPO.poNumber
                                            \o " (needs review)")
             IN  IF simulateHumanFeedback
                 THEN Updated(
                          RunRecordApproval(env,
                              RunRememberCorrectionApproval(env, s2, poPatternId,
                                  "Single matching PO",
                                  "Set poNumber to " \o matchedPO.poNumber),
                              "VENDOR:" \o vendor \o ":po"),
                          "Updated Correction Memory for '" \o poPatternId \o "'")
                 ELSE s2

\* Skonto Detection (Freight & Co)
SkontoDetection(env, s, invoice, simulateHumanFeedback) ==
    LET skontoTerm == detectSkonto(invoice.vendor, invoice.rawText)
    IN  IF Falsy(skontoTerm) THEN s
        ELSE LET s1 == Log([s EXCEPT !.result.normalizedInvoice.discountTerms = skontoTerm],
                           "detect", "Skonto detected: " \o skontoTerm)
             IN  IF simulateHumanFeedback
                 THEN Updated(RunRememberVendorCorrection(env, s1, invoice.vendor, skontoTerm),
                              "Updated Vendor Memory with discountTerms")
                 ELSE s1

\* mutant: the freight SKU is set whatever the pattern's confidence
FreightSKUStepUngated(env, s, vendor, simulateHumanFeedback, i) ==
    LET li == s.result.normalizedInvoice.lineItems[i]
        skuPatternId == "FREIGHT_SERVICE_SKU_MAPPING"
        skuMem == getCorrectionMemory(env, s.correction, skuPatternId)
    IN  IF ~(Falsy(li.sku) /\ isFreightService(li.description)) THEN s
        ELSE LET s1 == Consulted(Log(s, "sku_map",
                                     "Freight SKU mapped for: " \o li.description),
                                 skuPatternId, i, skuMem)
                 s2 == Log(Propose([s1 EXCEPT
                                      !.result.normalizedInvoice.lineItems[i].sku =
                                          "FREIGHT"],
                                   "Set sku = FREIGHT for '" \o li.description \o "'"),
                           "apply", "Auto-applied sku='FREIGHT'")
             IN  IF simulateHumanFeedback
                 THEN Updated(
                          RunRecordApproval(env,
                              RunRememberCorrectionApproval(env, s2, skuPatternId,
                                  "Freight service mapped from description",
                                  "Set sku = FREIGHT"),
                              "VENDOR:" \o vendor \o ":sku"),
                          "Updated Correction Memory for '" \o skuPatternId \o "'")
                 ELSE s2

\* Freight SKU Mapping: the loop body for line item i
FreightSKUStep(env, s, vendor, simulateHumanFeedback, i) ==
    LET li == s.result.normalizedInvoice.lineItems[i]
        skuPatternId == "FREIGHT_SERVICE_SKU_MAPPING"
        skuMem == getCorrectionMemory(env, s.correction, skuPatternId)
    IN  IF ~(Falsy(li.sku) /\ isFreightService(li.description)) THEN s
        ELSE LET s1 == Consulted(Log(s, "sku_map",
                                     "Freight SKU mapped for: " \o li.description),
                                 skuPatternId, i, skuMem)
                 s2 == IF ~IsNull(skuMem) /\ skuMem.confidence >= THRESHOLD
                       THEN Log(Propose([s1 EXCEPT
                                           !.result.normalizedInvoice.lineItems[i].sku =
                                               "FREIGHT"],
                                        "Set sku = FREIGHT for '" \o li.description \o "'"),
                                "apply", "Auto-applied sku='FREIGHT'")
                       ELSE Propose(s1, "Set sku = FREIGHT for '" \o li.description
                                            \o "' (needs review)")
             IN  IF simulateHumanFeedback
                 THEN Updated(
                          RunRecordApproval(env,
                              RunRememberCorrectionApproval(env, s2, skuPatternId,
                                  "Freight service mapped from description",
                                  "Set sku = FREIGHT"),
                              "VENDOR:" \o vendor \o ":sku"),
                          "Updated Correction Memory for '" \o skuPatternId \o "'")
                 ELSE s2

RECURSIVE FreightSKUMapping(_, _, _, _, _)
\* Freight SKU Mapping: for (let i = ...; i < lineItems.length; i++)
FreightSKUMapping(env, s, vendor, simulateHumanFeedback, i) ==
    IF i > Len(s.result.normalizedInvoice.lineItems) THEN s
    ELSE FreightSKUMapping(env,
             FreightSKUStep(env, s, vendor, simulateHumanFeedback, i),
             vendor, simulateHumanFeedback, i + 1)

\* VAT Detection (Parts AG)
VATDetection(env, s, invoice, simulateHumanFeedback) ==
    LET vatPatternId == "VAT_INCLUDED_IN_TOTAL"
        vatMem == getCorrectionMemory(env, s.correction, vatPatternId)
    IN  IF ~detectVATIncluded(invoice.vendor, invoice.rawText) THEN s
        ELSE LET s1 == Consulted(
                           Log([s EXCEPT !.result.normalizedInvoice.pricesIncludeVAT = TRUE],
                               "detect", "VAT-included detected"),
                           vatPatternId, 0, vatMem)
                 s2 == IF ~IsNull(vatMem) /\ vatMem.confidence >= THRESHOLD
                       THEN Log(Propose(s1, "Recompute tax and gross from net"),
                                "apply", "Auto-suggested: " \o vatMem.action)
                       ELSE Propose(s1, "Recompute tax and gross from net (needs review)")
             IN  IF simulateHumanFeedback
                 THEN Updated(
                          RunRecordApproval(env,
                              RunRememberCorrectionApproval(env, s2, vatPatternId,
                                  "Totals already include VAT",
                                  "Recompute tax and gross from net"),
                              "VENDOR:" \o invoice.vendor \o ":vat"),
                          "Updated Correction Memory for '" \o vatPatternId \o "'")
                 ELSE s2

\* Currency Inference
CurrencyInference(env, s, invoice, simulateHumanFeedback) ==
    LET inferred == inferCurrencyFromRawText(invoice.rawText)
    IN  IF ~Falsy(invoice.fields.currency) \/ Falsy(inferred) THEN s
        ELSE LET s1 == Propose(Log([s EXCEPT !.result.normalizedInvoice.currency = inferred],
                                   "detect", "Currency inferred: " \o inferred),
                               "Set currency = " \o inferred)
             IN  IF simulateHumanFeedback
                 THEN Updated(
                          RunRecordApproval(env,
                              RunRememberCorrectionApproval(env, s1,
                                  "CURRENCY_FROM_RAWTEXT",
                                  "Currency inferred from rawText",
                                  "Set currency = " \o inferred),
                              "VENDOR:" \o invoice.vendor \o ":currency"),
                          "Updated Correction Memory for 'CURRENCY_FROM_RAWTEXT'")
                 ELSE s1

\* Recall
Recall(env, s, vendor) ==
    LET vendorMem == getVendorMemory(env, s.vendor, vendor)
        correctionMem == getCorrectionMemory(env, s.correction, QtyPattern)
        s1 == [s EXCEPT !.recalled = TRUE, !.vendorMem = vendorMem,
                        !.correctionMem = correctionMem,
                        \* the store files as the recall finds them
                        !.atRecall = [vendor |-> s.vendor, correction |-> s.correction,
                                      resolution |-> s.resolution]]
    IN  IF ~IsNull(vendorMem)
        THEN Log(s1, "recall",
                 "Vendor Memory: confidence=" \o ToString(vendorMem.confidence))
        ELSE Log(s1, "recall", "No Vendor Memory for '" \o vendor \o "'")

\* mutant: the decision also waits for the quantity pattern
DecisionNeedsPattern(s) ==
    LET vendorMem == s.vendorMem
        correctionMem == s.correctionMem
        vendorConfidence == IF IsNull(vendorMem) THEN 0 ELSE vendorMem.confidence
        sure == /\ ~IsNull(vendorMem) /\ vendorConfidence >= THRESHOLD
                /\ ~IsNull(correctionMem) /\ correctionMem.confidence >= THRESHOLD
        s1 == IF ~IsNull(vendorMem) /\ vendorConfidence >= THRESHOLD
              THEN [s EXCEPT !.result.normalizedInvoice.serviceDateLabel =
                                 vendorMem.serviceDateLabel]
              ELSE s
    IN  [s1 EXCEPT !.result.requiresHumanReview = ~sure,
                   !.result.confidenceScore = vendorConfidence]

\* Decision
Decision(s) ==
    LET vendorMem == s.vendorMem
        correctionMem == s.correctionMem
        vendorConfidence == IF IsNull(vendorMem) THEN 0 ELSE vendorMem.confidence
        s1 == IF ~IsNull(vendorMem) /\ vendorConfidence >= THRESHOLD
              THEN Log([s EXCEPT !.result.normalizedInvoice.serviceDateLabel =
                                     vendorMem.serviceDateLabel],
                       "apply",
                       "Auto-applied serviceDateLabel='" \o vendorMem.serviceDateLabel \o "'")
              ELSE s
        s2 == IF ~IsNull(correctionMem) /\ correctionMem.confidence >= THRESHOLD
              THEN Propose(s1, correctionMem.action)
              ELSE s1
        s3 == IF ~IsNull(vendorMem) /\ vendorConfidence >= THRESHOLD
              THEN [s2 EXCEPT
                      !.result.requiresHumanReview = FALSE,
                      !.result.reasoning = "All actions applied with high confidence.",
                      !.result.confidenceScore = vendorConfidence]
              ELSE [s2 EXCEPT
                      !.result.requiresHumanReview = TRUE,
                      !.result.reasoning = "Confidence below threshold or missing memory.",
                      !.result.confidenceScore =
                          IF ~IsNull(vendorMem) THEN vendorConfidence ELSE @]
    IN  Log(s3, "decide",
            "requiresHumanReview=" \o ToString(s3.result.requiresHumanReview))

\* mutant: a run under review learns whether or not feedback was supplied
LearningUnprompted(env, s, vendor, simulateHumanFeedback) ==
    IF s.result.requiresHumanReview
    THEN LET s1 == Updated(RunRememberVendorCorrection(env, s, vendor, "Leistungsdatum"),
                           "Updated Vendor Memory for '" \o vendor \o "'")
             s2 == RunRememberCorrectionApproval(env, s1, QtyPattern,
                       "Quantity Mismatch", "Use Delivery Note Quantity")
         IN  Log(RunRecordApproval(env, s2, ServiceDateId(vendor)),
                 "learn", "Human Feedback: Approved")
    ELSE Updated(RunRecordApproval(env, s, ServiceDateId(vendor)),
                 "Recorded System Success")

\* Learning
Learning(env, s, vendor, simulateHumanFeedback) ==
    IF simulateHumanFeedback /\ s.result.requiresHumanReview
    THEN LET s1 == Updated(RunRememberVendorCorrection(env, s, vendor, "Leistungsdatum"),
                           "Updated Vendor Memory for '" \o vendor \o "'")
             s2 == RunRememberCorrectionApproval(env, s1, QtyPattern,
                       "Quantity Mismatch", "Use Delivery Note Quantity")
         IN  Log(RunRecordApproval(env, s2, ServiceDateId(vendor)),
                 "learn", "Human Feedback: Approved")
    ELSE IF ~s.result.requiresHumanReview
    THEN Updated(RunRecordApproval(env, s, ServiceDateId(vendor)),
                 "Recorded System Success")
    ELSE s

\* mutant: the pipeline never exits early
DuplicateExitNever(s) == FALSE

\* if (dupResult.isDuplicate) { ...; return result; }
DuplicateExit(s) == s.dupResult.isDuplicate

processInvoice(env, st, invoice, simulateHumanFeedback) ==
    LET vendor == invoice.vendor
        fields == invoice.fields
        s0 == Log(BeginRun(st, [vendor |-> vendor,
                                invoiceNumber |-> fields.invoiceNumber,
                                invoiceDate |-> fields.invoiceDate,
                                currency |-> fields.currency,
                                serviceDateLabel |-> Null,
                                pricesIncludeVAT |-> FALSE,
                                poNumber |-> IF Falsy(fields.poNumber) THEN Null
                                             ELSE fields.poNumber,
                                discountTerms |-> Null,
                                lineItems |-> fields.lineItems]),
                  "ingest", "Loaded invoice " \o invoice.invoiceId)
        \* Duplicate Check
        s1 == RunCheckAndRecordInvoice(env, s0, vendor, fields.invoiceNumber,
                                       fields.invoiceDate)
    IN  IF DuplicateExit(s1)
        THEN Log([s1 EXCEPT !.result.reasoning =
                                "Duplicate invoice (Seen "
                                    \o ToString(s1.dupResult.seenCount) \o " times)"],
                 "duplicate_check",
                 "Duplicate. seenCount=" \o ToString(s1.dupResult.seenCount))
        ELSE LET s2 == Log(s1, "duplicate_check", "Unique invoice.")
                 s3 == POMatching(env, s2, invoice, simulateHumanFeedback)
                 s4 == SkontoDetection(env, s3, invoice, simulateHumanFeedback)
                 s5 == FreightSKUMapping(env, s4, vendor, simulateHumanFeedback, 1)
                 s6 == VATDetection(env, s5, invoice, simulateHumanFeedback)
                 s7 == CurrencyInference(env, s6, invoice, simulateHumanFeedback)
                 s8 == Decision(Recall(env, s7, vendor))
             IN  Learning(env, s8, vendor, simulateHumanFeedback)

----------------------------------------------------------------------------
(* applyHumanCorrections(corrections): replay of recorded corrections.     *)

\* the body of: for (const fc of fieldsCorrected)
ApplyFieldCorrection(env, st, correction, fc) ==
    LET field == LowerCase(fc.field)
        reason == LowerCase(fc.reason)
        st1 == IF Includes(field, "servicedate") \/ field = "servicedatelabel"
               THEN [st EXCEPT !.vendor =
                         rememberVendorCorrection(env, @, correction.vendor,
                                                  fc.correctedValue)]
               ELSE st
        st2 == IF Includes(reason, "quantity mismatch") \/ field = "quantity"
               THEN IF correction.finalDecision = "approved"
                    THEN [st1 EXCEPT !.correction =
                              rememberCorrectionApproval(env, @, QtyPattern,
                                  "Quantity Mismatch", "Use Delivery Note Quantity")]
                    ELSE [st1 EXCEPT !.correction =
                              rememberCorrectionRejection(env, @, QtyPattern)]
               ELSE st1
        st3 == IF Includes(reason, "vat") \/ Includes(field, "vat")
               THEN [st2 EXCEPT !.correction =
                         rememberCorrectionApproval(env, @, "VAT_INCLUDED_IN_TOTAL",
                             "VAT Handling", "Totals already include VAT")]
               ELSE st2
    IN  IF Includes(reason, "currency") \/ field = "currency"
        THEN [st3 EXCEPT !.correction =
                  rememberCorrectionApproval(env, @, "CURRENCY_MISMATCH",
                      "Currency Mismatch", "Correct currency based on vendor")]
        ELSE st3

RECURSIVE ApplyFieldCorrections(_, _, _, _)
ApplyFieldCorrections(env, st, correction, i) ==
    IF i > Len(correction.fieldsCorrected) THEN st
    ELSE ApplyFieldCorrections(env,
             ApplyFieldCorrection(env, st, correction, correction.fieldsCorrected[i]),
             correction, i + 1)

\* the body of: for (const correction of corrections)
ApplyHumanCorrection(env, st, correction) ==
    LET st1 == ApplyFieldCorrections(env, st, correction, 1)
        memId == "VENDOR:" \o correction.vendor \o ":correction"
    IN  IF correction.finalDecision = "approved"
        THEN [st1 EXCEPT !.resolution = recordApproval(env, @, memId)]
        ELSE [st1 EXCEPT !.resolution = recordRejection(env, @, memId)]

RECURSIVE applyHumanCorrections(_, _, _, _)
applyHumanCorrections(env, st, corrections, i) ==
    IF i > Len(corrections) THEN st
    ELSE applyHumanCorrections(env,
             ApplyHumanCorrection(env, st, corrections[i]), corrections, i + 1)

----------------------------------------------------------------------------
(* State, and the store calls as actions.                                  *)

Snapshot ==
    [vendor |-> vendorMemory, correction |-> correctionMemory,
     resolution |-> resolutionMemory, duplicate |-> duplicateMemory]

\* the operating-system processes that run the program on the same files
Procs == {"p1", "p2"}

\* a process that is not inside a store call
Idle == [pc |-> "idle"]

Init ==
    /\ vendorMemory = EmptyStore
    /\ correctionMemory = EmptyStore
    /\ resolutionMemory = EmptyStore
    /\ duplicateMemory = EmptyStore
    /\ pre = [vendor |-> EmptyStore, correction |-> EmptyStore,
              resolution |-> EmptyStore, duplicate |-> EmptyStore]
    /\ last = [name |-> "none"]
    /\ calls = EmptyStore
    /\ nOps = 0
    /\ procs = [p \in Procs |-> Idle]

\* a call that runs from its load to its save with no other process in between
Called == pre' = Snapshot /\ nOps' = nOps + 1 /\ UNCHANGED procs

CallsOf(key) == IF Has(calls, key) THEN calls[key] ELSE 0

\* the recordApproval and recordRejection calls made so far for an id
TallyOf(memoryId) ==
    IF Has(calls, memoryId) THEN calls[memoryId]
    ELSE [approvals |-> 0, rejections |-> 0, latest |-> "none"]

RememberVendorCorrection(env, vendorName, serviceDateLabel) ==
    /\ vendorMemory' =
           rememberVendorCorrection(env, vendorMemory, vendorName, serviceDateLabel)
    /\ last' = [env |-> env, name |-> "rememberVendorCorrection", key |-> vendorName,
                serviceDateLabel |-> serviceDateLabel]
    /\ Called
    /\ UNCHANGED <<correctionMemory, resolutionMemory, duplicateMemory, calls>>

RememberCorrectionApproval(env, patternId, description, action) ==
    /\ correctionMemory' =
           rememberCorrectionApproval(env, correctionMemory, patternId, description, action)
    /\ last' = [env |-> env, name |-> "rememberCorrectionApproval", key |-> patternId,
                description |-> description, action |-> action]
    /\ Called
    /\ UNCHANGED <<vendorMemory, resolutionMemory, duplicateMemory, calls>>

RememberCorrectionRejection(env, patternId) ==
    /\ correctionMemory' = rememberCorrectionRejection(env, correctionMemory, patternId)
    /\ last' = [env |-> env, name |-> "rememberCorrectionRejection", key |-> patternId]
    /\ Called
    /\ UNCHANGED <<vendorMemory, resolutionMemory, duplicateMemory, calls>>

RecordApproval(env, memoryId) ==
    /\ resolutionMemory' = recordApproval(env, resolutionMemory, memoryId)
    /\ last' = [env |-> env, name |-> "recordApproval", key |-> memoryId]
    /\ calls' = Put(calls, memoryId,
                    [TallyOf(memoryId) EXCEPT !.approvals = @ + 1, !.latest = "approved"])
    /\ Called
    /\ UNCHANGED <<vendorMemory, correctionMemory, duplicateMemory>>

RecordRejection(env, memoryId) ==
    /\ resolutionMemory' = recordRejection(env, resolutionMemory, memoryId)
    /\ last' = [env |-> env, name |-> "recordRejection", key |-> memoryId]
    /\ calls' = Put(calls, memoryId,
                    [TallyOf(memoryId) EXCEPT !.rejections = @ + 1, !.latest = "rejected"])
    /\ Called
    /\ UNCHANGED <<vendorMemory, correctionMemory, duplicateMemory>>

CheckAndRecordInvoice(env, vendor, invoiceNumber, invoiceDate) ==
    LET dupResult ==
            checkAndRecordInvoice(env, duplicateMemory, vendor, invoiceNumber, invoiceDate)
        key == DuplicateKey(vendor, invoiceNumber, invoiceDate)
    IN  /\ duplicateMemory' = dupResult.file
        /\ last' = [env |-> env, name |-> "checkAndRecordInvoice", key |-> key,
                    vendor |-> vendor, invoiceNumber |-> invoiceNumber,
                    invoiceDate |-> invoiceDate,
                    isDuplicate |-> dupResult.isDuplicate,
                    seenCount |-> dupResult.seenCount]
        /\ calls' = Put(calls, key, CallsOf(key) + 1)
        /\ Called
        /\ UNCHANGED <<vendorMemory, correctionMemory, resolutionMemory>>

IsDuplicateInvoice(env, vendor, invoiceNumber, invoiceDate) ==
    /\ last' = [env |-> env, name |-> "isDuplicateInvoice",
                key |-> DuplicateKey(vendor, invoiceNumber, invoiceDate),
                vendor |-> vendor, invoiceNumber |-> invoiceNumber,
                invoiceDate |-> invoiceDate,
                returned |-> isDuplicateInvoice(env, duplicateMemory, vendor,
                                                invoiceNumber, invoiceDate)]
    /\ Called
    /\ UNCHANGED <<stores, calls>>

RunLast(env, variant, vendor, invoiceNumber, invoiceDate, simulateHumanFeedback, run) ==
    [env |-> env, name |-> "processInvoice", variant |-> variant,
     key |-> DuplicateKey(vendor, invoiceNumber, invoiceDate),
     vendor |-> vendor, simulateHumanFeedback |-> simulateHumanFeedback,
     isDuplicate |-> run.dupResult.isDuplicate, seenCount |-> run.dupResult.seenCount,
     invoiceNumber |-> invoiceNumber,
     recalled |-> run.recalled, vendorMem |-> run.vendorMem,
     correctionMem |-> run.correctionMem, consulted |-> run.consulted,
     atRecall |-> run.atRecall,
     result |-> run.result]

\* where the runs so far are remembered to have accepted an invoice of the
\* vendor without review
AcceptedKey(vendor) == "accepted:" \o vendor

RunDone(run, vendor, key) ==
    /\ vendorMemory' = run.vendor
    /\ correctionMemory' = run.correction
    /\ resolutionMemory' = run.resolution
    /\ duplicateMemory' = run.duplicate
    /\ calls' = LET counted == Put(calls, key, CallsOf(key) + 1)
                IN  IF ~run.dupResult.isDuplicate /\ ~run.result.requiresHumanReview
                    THEN Put(counted, AcceptedKey(vendor), 1)
                    ELSE counted
    /\ Called

ProcessInvoice(env, invoice, simulateHumanFeedback) ==
    LET run == processInvoice(env, Snapshot, invoice, simulateHumanFeedback)
    IN  /\ last' = RunLast(env, "invoice", invoice.vendor, invoice.fields.invoiceNumber,
                           invoice.fields.invoiceDate, simulateHumanFeedback, run)
        /\ RunDone(run, invoice.vendor, DuplicateKey(invoice.vendor, invoice.fields.invoiceNumber,
                                     invoice.fields.invoiceDate))

ProcessInvoice5(env, vendor, invoiceNumber, invoiceDate, description, simulateHumanFeedback) ==
    LET run == processInvoice5(env, Snapshot, vendor, invoiceNumber, invoiceDate,
                               description, simulateHumanFeedback)
    IN  /\ last' = RunLast(env, "five", vendor, invoiceNumber, invoiceDate,
                           simulateHumanFeedback, run)
        /\ RunDone(run, vendor, DuplicateKey(vendor, invoiceNumber, invoiceDate))

ApplyHumanCorrections(env, corrections) ==
    LET st == applyHumanCorrections(env, Snapshot, corrections, 1)
    IN  /\ vendorMemory' = st.vendor
        /\ correctionMemory' = st.correction
        /\ resolutionMemory' = st.resolution
        /\ last' = [env |-> env, name |-> "applyHumanCorrections", corrections |-> corrections]
        /\ Called
        /\ UNCHANGED <<duplicateMemory, calls>>

\* resetAllMemories: every store file is unlinked
ResetAllMemories ==
    /\ vendorMemory' = EmptyStore
    /\ correctionMemory' = EmptyStore
    /\ resolutionMemory' = EmptyStore
    /\ duplicateMemory' = EmptyStore
    /\ calls' = EmptyStore
    /\ last' = [name |-> "resetAllMemories"]
    /\ Called

----------------------------------------------------------------------------
(* The confidence stores used directly: any sequence of at most            *)
(* MaxStoreOps reinforce and decay calls from empty stores.                *)

StoreVendors == {"Supplier GmbH", "Freight & Co"}
StoreLabels == {"Leistungsdatum", "Service Date"}
StorePatterns == {"QTY_MISMATCH_USE_DN_QTY", "VAT_INCLUDED_IN_TOTAL"}
StoreTexts == {<<"Quantity Mismatch", "Use Delivery Note Quantity">>,
               <<"VAT Handling", "Totals already include VAT">>}

NextStore ==
    \/ \E v \in StoreVendors, l \in StoreLabels :
           nOps < MaxStoreOps /\ RememberVendorCorrection(Healthy, v, l)
    \/ \E p \in StorePatterns, t \in StoreTexts :
           nOps < MaxStoreOps /\ RememberCorrectionApproval(Healthy, p, t[1], t[2])
    \/ \E p \in StorePatterns :
           nOps < MaxStoreOps /\ RememberCorrectionRejection(Healthy, p)

SpecStore == Init /\ [][NextStore]_vars

----------------------------------------------------------------------------
(* The duplicate store used directly: any sequence of at most MaxDupOps    *)
(* checkAndRecordInvoice and isDuplicateInvoice calls from an empty store. *)

DupVendors == {"Acme", "Acme|7"}
DupNumbers == {"7", "7|7"}
DupDates == {"2025-01-01", "2025-02-01"}

NextDup ==
    \/ \E v \in DupVendors, n \in DupNumbers, d \in DupDates :
           nOps < MaxDupOps /\ CheckAndRecordInvoice(Healthy, v, n, d)
    \/ \E v \in DupVendors, n \in DupNumbers, d \in DupDates :
           nOps < MaxDupOps /\ IsDuplicateInvoice(Healthy, v, n, d)

SpecDup == Init /\ [][NextDup]_vars

----------------------------------------------------------------------------
(* The pipelines in use: any sequence of at most MaxRunOps runs of either  *)
(* processInvoice, replays of human corrections, direct store calls and    *)
(* resets, from empty stores.                                              *)

RunVendors == {"Supplier GmbH", "Freight & Co", "Parts AG"}
RunNumbers == {"INV-001", "INV-002"}
RunDate == "2025-01-01"

\* the extracted invoice a vendor sends under a given number
InvoiceOf(vendor, invoiceNumber) ==
    [invoiceId |-> invoiceNumber,
     vendor |-> vendor,
     fields |->
        [invoiceNumber |-> invoiceNumber,
         invoiceDate |-> RunDate,
         currency |-> IF vendor = "Parts AG" THEN Null ELSE "EUR",
         poNumber |-> CASE vendor = "Supplier GmbH" -> Null
                        [] vendor = "Freight & Co" -> "PO-C-900"
                        [] OTHER -> "PO-B-110",
         lineItems |->
            CASE vendor = "Supplier GmbH" ->
                     <<[description |-> "Widget Supply", sku |-> "W-1"]>>
              [] vendor = "Freight & Co" ->
                     <<[description |-> "Seefracht Hamburg", sku |-> Null],
                       [description |-> "Transport Berlin", sku |-> Null]>>
              [] OTHER -> <<[description |-> "Bolt M8", sku |-> "B-8"]>>],
     rawText |->
        CASE vendor = "Supplier GmbH" -> <<"Rechnung">>
          [] vendor = "Freight & Co" ->
                 <<"Freight invoice", "2% Skonto if paid within 10 days ">>
          [] OTHER -> <<"Prices incl. VAT", "Total 100 EUR">>]

RunInvoices == {InvoiceOf(v, n) : v \in RunVendors, n \in RunNumbers}

\* replayed human corrections
RunCorrections ==
    {[correctionId |-> "HC-1", invoiceId |-> "INV-001", vendor |-> "Supplier GmbH",
      fieldsCorrected |-> <<[field |-> "serviceDate", correctedValue |-> "Leistungsdatum",
                             reason |-> "Vendor uses Leistungsdatum"]>>,
      finalDecision |-> "approved"],
     [correctionId |-> "HC-2", invoiceId |-> "INV-002", vendor |-> "Supplier GmbH",
      fieldsCorrected |-> <<[field |-> "quantity", correctedValue |-> "5",
                             reason |-> "Quantity mismatch with delivery note"]>>,
      finalDecision |-> "rejected"],
     [correctionId |-> "HC-3", invoiceId |-> "INV-001", vendor |-> "Parts AG",
      fieldsCorrected |-> <<[field |-> "taxTotal", correctedValue |-> "0",
                             reason |-> "VAT already included in totals"],
                            [field |-> "currency", correctedValue |-> "EUR",
                             reason |-> "Currency missing"]>>,
      finalDecision |-> "approved"],
     [correctionId |-> "HC-4", invoiceId |-> "INV-002", vendor |-> "Freight & Co",
      fieldsCorrected |-> <<[field |-> "serviceDateLabel", correctedValue |-> "Lieferdatum",
                             reason |-> "Wrong service date label"]>>,
      finalDecision |-> "rejected"]}

NextRun ==
    \/ \E invoice \in RunInvoices, fb \in BOOLEAN :
           nOps < MaxRunOps /\ ProcessInvoice(Healthy, invoice, fb)
    \/ \E v \in RunVendors, n \in RunNumbers, fb \in BOOLEAN :
           nOps < MaxRunOps
               /\ ProcessInvoice5(Healthy, v, n, RunDate, "Widget Supply", fb)
    \/ \E c \in RunCorrections :
           nOps < MaxRunOps /\ ApplyHumanCorrections(Healthy, <<c>>)
    \/ \E v \in RunVendors :
           nOps < MaxRunOps /\ RememberVendorCorrection(Healthy, v, "Service Date")
    \/ nOps < MaxRunOps
           /\ RememberCorrectionApproval(Healthy, QtyPattern, "Quantity Mismatch",
                                         "Use Delivery Note Quantity")
    \/ nOps < MaxRunOps /\ RememberCorrectionRejection(Healthy, QtyPattern)
    \/ nOps < MaxRunOps /\ ResetAllMemories

SpecRun == Init /\ [][NextRun]_vars

----------------------------------------------------------------------------
(* The resolution store used directly: any sequence of at most MaxResOps   *)
(* recordApproval and recordRejection calls from an empty store.           *)

ResIds == {"VENDOR:Supplier GmbH:serviceDateLabel", "VENDOR:Supplier GmbH:correction",
           "VENDOR:Freight & Co:sku"}

NextRes ==
    \/ \E id \in ResIds : nOps < MaxResOps /\ RecordApproval(Healthy, id)
    \/ \E id \in ResIds : nOps < MaxResOps /\ RecordRejection(Healthy, id)

SpecRes == Init /\ [][NextRes]_vars

----------------------------------------------------------------------------
(* Store files that fail: any sequence of at most MaxFaultOps store calls  *)
(* and runs of either processInvoice, each made while at most one store    *)
(* file cannot be written or cannot be read, from empty stores.            *)

\* the file system with one file that cannot be written
Unwritable(name) == [Healthy EXCEPT ![name].writable = FALSE]

\* the file system with one file that is missing, unreadable or corrupt
Unreadable(name) == [Healthy EXCEPT ![name].readable = FALSE]

FaultsOf(name) == {Healthy, Unwritable(name), Unreadable(name)}

FaultEnvs == UNION {FaultsOf(name) : name \in Files}

FaultVendor == "Freight & Co"
FaultNumber == "INV-001"
FaultId == "VENDOR:Freight & Co:serviceDateLabel"

NextFault ==
    \/ \E env \in FaultEnvs, fb \in BOOLEAN :
           nOps < MaxFaultOps
               /\ ProcessInvoice(env, InvoiceOf(FaultVendor, FaultNumber), fb)
    \/ \E env \in FaultEnvs, fb \in BOOLEAN :
           nOps < MaxFaultOps
               /\ ProcessInvoice5(env, FaultVendor, FaultNumber, RunDate, "Widget Supply", fb)
    \/ \E env \in FaultsOf("vendorMemory.json") :
           nOps < MaxFaultOps /\ RememberVendorCorrection(env, FaultVendor, "Service Date")
    \/ \E env \in FaultsOf("correctionMemory.json") :
           nOps < MaxFaultOps
               /\ RememberCorrectionApproval(env, QtyPattern, "Quantity Mismatch",
                                             "Use Delivery Note Quantity")
    \/ \E env \in FaultsOf("correctionMemory.json") :
           nOps < MaxFaultOps /\ RememberCorrectionRejection(env, QtyPattern)
    \/ \E env \in FaultsOf("resolutionMemory.json") :
           nOps < MaxFaultOps /\ RecordApproval(env, FaultId)
    \/ \E env \in FaultsOf("resolutionMemory.json") :
           nOps < MaxFaultOps /\ RecordRejection(env, FaultId)
    \/ \E env \in FaultsOf("duplicateMemory.json") :
           nOps < MaxFaultOps
               /\ CheckAndRecordInvoice(env, FaultVendor, FaultNumber, RunDate)

SpecFault == Init /\ [][NextFault]_vars

----------------------------------------------------------------------------
(* Two processes on the same files: each store call is a load of the whole *)
(* file, a mutation of the loaded copy and a save of the whole copy, with  *)
(* no lock between them, so the steps of two calls can interleave.  At     *)
(* most MaxRaceOps calls are started.                                      *)

RaceVendors == {"Supplier GmbH", "Parts AG"}
RaceNumbers == {"INV-001", "INV-002"}

\* the calls finished so far for a key, and how many of them returned
\* isDuplicate = false
RaceTally(key) == IF Has(calls, key) THEN calls[key] ELSE [done |-> 0, first |-> 0]

\* rememberVendorCorrection up to the return of loadVendorMemory
LoadVendorStep(p, vendorName, serviceDateLabel) ==
    /\ procs[p].pc = "idle"
    /\ procs' = [procs EXCEPT ![p] =
                    [pc |-> "loaded", op |-> "rememberVendorCorrection",
                     memory |-> loadVendorMemory(Healthy, vendorMemory),
                     vendorName |-> vendorName, serviceDateLabel |-> serviceDateLabel]]
    /\ nOps' = nOps + 1
    /\ UNCHANGED <<stores, pre, last, calls>>

\* rememberVendorCorrection from there to its return
SaveVendorStep(p) ==
    /\ procs[p].pc = "loaded"
    /\ procs[p].op = "rememberVendorCorrection"
    /\ vendorMemory' =
           saveVendorMemory(Healthy, vendorMemory,
                            VendorCorrected(procs[p].memory, procs[p].vendorName,
                                            procs[p].serviceDateLabel))
    /\ last' = [env |-> Healthy, name |-> "rememberVendorCorrection",
                key |-> procs[p].vendorName,
                serviceDateLabel |-> procs[p].serviceDateLabel]
    /\ calls' = Put(calls, procs[p].vendorName,
                    [RaceTally(procs[p].vendorName) EXCEPT !.done = @ + 1])
    /\ procs' = [procs EXCEPT ![p] = Idle]
    /\ pre' = Snapshot
    /\ UNCHANGED <<correctionMemory, resolutionMemory, duplicateMemory, nOps>>

\* checkAndRecordInvoice up to the return of loadDuplicateMemory
LoadDuplicateStep(p, vendor, invoiceNumber, invoiceDate) ==
    /\ procs[p].pc = "idle"
    /\ procs' = [procs EXCEPT ![p] =
                    [pc |-> "loaded", op |-> "checkAndRecordInvoice",
                     memory |-> loadDuplicateMemory(Healthy, duplicateMemory),
                     vendor |-> vendor, invoiceNumber |-> invoiceNumber,
                     invoiceDate |-> invoiceDate]]
    /\ nOps' = nOps + 1
    /\ UNCHANGED <<stores, pre, last, calls>>

\* checkAndRecordInvoice from there to its return
SaveDuplicateStep(p) ==
    /\ procs[p].pc = "loaded"
    /\ procs[p].op = "checkAndRecordInvoice"
    /\ LET memory == procs[p].memory
           key == DuplicateKey(procs[p].vendor, procs[p].invoiceNumber,
                               procs[p].invoiceDate)
           updated == InvoiceSeen(memory, procs[p].vendor, procs[p].invoiceNumber,
                                  procs[p].invoiceDate)
       IN  /\ duplicateMemory' = saveDuplicateMemory(Healthy, duplicateMemory, updated)
           /\ last' = [env |-> Healthy, name |-> "checkAndRecordInvoice", key |-> key,
                       vendor |-> procs[p].vendor,
                       invoiceNumber |-> procs[p].invoiceNumber,
                       invoiceDate |-> procs[p].invoiceDate,
                       isDuplicate |-> Has(memory, key),
                       seenCount |-> updated[key].seenCount]
           /\ calls' = Put(calls, key,
                           [done |-> RaceTally(key).done + 1,
                            first |-> RaceTally(key).first
                                          + (IF Has(memory, key) THEN 0 ELSE 1)])
    /\ procs' = [procs EXCEPT ![p] = Idle]
    /\ pre' = Snapshot
    /\ UNCHANGED <<vendorMemory, correctionMemory, resolutionMemory, nOps>>

NextRace ==
    \/ \E p \in Procs, v \in RaceVendors :
           nOps < MaxRaceOps /\ LoadVendorStep(p, v, "Service Date")
    \/ \E p \in Procs : nOps <= MaxRaceOps /\ SaveVendorStep(p)
    \/ \E p \in Procs, n \in RaceNumbers :
           nOps < MaxRaceOps /\ LoadDuplicateStep(p, "Supplier GmbH", n, RunDate)
    \/ \E p \in Procs : nOps <= MaxRaceOps /\ SaveDuplicateStep(p)

SpecRace == Init /\ [][NextRace]_vars

----------------------------------------------------------------------------
(* Approved invoices of one vendor: from empty stores, at most             *)
(* MaxApproveOps runs of either processInvoice, all for the vendor of the  *)
(* first run, each under a natural key not seen before and each with       *)
(* simulateHumanFeedback set.                                              *)

ApproveNumbers == {"INV-001", "INV-002", "INV-003", "INV-004"}

\* the run continues the history of one vendor under a new natural key
NextOfVendor(vendor, invoiceNumber) ==
    /\ IF last.name = "none" THEN TRUE ELSE last.vendor = vendor
    /\ ~Has(duplicateMemory, DuplicateKey(vendor, invoiceNumber, RunDate))

NextApprove ==
    \/ \E v \in RunVendors, n \in ApproveNumbers :
           nOps < MaxApproveOps /\ NextOfVendor(v, n)
               /\ ProcessInvoice(Healthy, InvoiceOf(v, n), TRUE)
    \/ \E v \in RunVendors, n \in ApproveNumbers :
           nOps < MaxApproveOps /\ NextOfVendor(v, n)
               /\ ProcessInvoice5(Healthy, v, n, RunDate, "Widget Supply", TRUE)

SpecApprove == Init /\ [][NextApprove]_vars

\* the step every disjunct of NextApprove takes on the call counter
RunMade == nOps < MaxApproveOps /\ nOps' = nOps + 1

\* the invoices are handled one after another, each run to its end: while
\* a further run can be made, one is made
SpecApproveFair == SpecApprove /\ WF_nOps(RunMade)

----------------------------------------------------------------------------
(* The store calls side by side: any sequence of at most MaxFrameOps calls *)
(* of the six store operations, each on one of two keys of its store and   *)
(* each made while its file is healthy, unwritable or unreadable.          *)

FrameVendors == {"Supplier GmbH", "Parts AG"}
FramePatterns == {"QTY_MISMATCH_USE_DN_QTY", "VAT_INCLUDED_IN_TOTAL"}
FrameIds == {"VENDOR:Supplier GmbH:serviceDateLabel", "VENDOR:Parts AG:serviceDateLabel"}
FrameNumbers == {"INV-001", "INV-002"}

NextFrame ==
    \/ \E env \in FaultsOf("vendorMemory.json"), v \in FrameVendors :
           nOps < MaxFrameOps /\ RememberVendorCorrection(env, v, "Service Date")
    \/ \E env \in FaultsOf("correctionMemory.json"), p \in FramePatterns :
           nOps < MaxFrameOps
               /\ RememberCorrectionApproval(env, p, "Quantity Mismatch",
                                             "Use Delivery Note Quantity")
    \/ \E env \in FaultsOf("correctionMemory.json"), p \in FramePatterns :
           nOps < MaxFrameOps /\ RememberCorrectionRejection(env, p)
    \/ \E env \in FaultsOf("resolutionMemory.json"), id \in FrameIds :
           nOps < MaxFrameOps /\ RecordApproval(env, id)
    \/ \E env \in FaultsOf("resolutionMemory.json"), id \in FrameIds :
           nOps < MaxFrameOps /\ RecordRejection(env, id)
    \/ \E env \in FaultsOf("duplicateMemory.json"), n \in FrameNumbers :
           nOps < MaxFrameOps /\ CheckAndRecordInvoice(env, "Supplier GmbH", n, RunDate)

SpecFrame == Init /\ [][NextFrame]_vars

----------------------------------------------------------------------------
(* One vendor over a longer history: any sequence of at most MaxLongOps    *)
(* runs of either processInvoice and direct store calls, from empty        *)
(* stores.                                                                 *)

LongVendor == "Supplier GmbH"
LongNumbers == {"INV-001", "INV-002", "INV-003"}

NextLong ==
    \/ \E n \in LongNumbers, fb \in BOOLEAN :
           nOps < MaxLongOps /\ ProcessInvoice(Healthy, InvoiceOf(LongVendor, n), fb)
    \/ \E n \in LongNumbers, fb \in BOOLEAN :
           nOps < MaxLongOps
               /\ ProcessInvoice5(Healthy, LongVendor, n, RunDate, "Widget Supply", fb)
    \/ nOps < MaxLongOps /\ RememberVendorCorrection(Healthy, LongVendor, "Service Date")
    \/ nOps < MaxLongOps
           /\ RememberCorrectionApproval(Healthy, QtyPattern, "Quantity Mismatch",
                                         "Use Delivery Note Quantity")
    \/ nOps < MaxLongOps /\ RememberCorrectionRejection(Healthy, QtyPattern)

SpecLong == Init /\ [][NextLong]_vars

----------------------------------------------------------------------------
(* Properties of the confidence stores (checked under SpecStore).          *)

Min(a, b) == IF a < b THEN a ELSE b
Max(a, b) == IF a > b THEN a ELSE b

LastIs(name) == last.name = name

\* C1: starting from empty vendor and pattern stores, after any sequence of
\* reinforce and decay calls on any keys, every stored record has a
\* confidence between 0.0 and 1.0.
C1_ConfidenceBounded ==
    /\ \A v \in DOMAIN vendorMemory :
           vendorMemory[v].confidence >= 0 /\ vendorMemory[v].confidence <= One
    /\ \A p \in DOMAIN correctionMemory :
           correctionMemory[p].confidence >= 0 /\ correctionMemory[p].confidence <= One

\* C1 witness: a pattern already at 1.0 has been reinforced once more.
C1_Witness ==
    /\ LastIs("rememberCorrectionApproval")
    /\ Has(pre.correction, last.key)
    /\ pre.correction[last.key].confidence = One
    /\ correctionMemory[last.key].confidence = One

\* C2: reinforcing a key absent from its store creates the record with
\* confidence exactly 0.5 (pattern store: approvedCount 1, rejectedCount 0),
\* and the reinforcement that follows the creating one yields 0.6.
C2_SeedThenSixTenths ==
    /\ LastIs("rememberVendorCorrection") =>
           /\ Has(vendorMemory, last.key)
           /\ ~Has(pre.vendor, last.key) =>
                  vendorMemory[last.key].confidence = 500
           /\ (Has(pre.vendor, last.key) /\ pre.vendor[last.key].confidence = 500) =>
                  vendorMemory[last.key].confidence = 600
    /\ LastIs("rememberCorrectionApproval") =>
           /\ Has(correctionMemory, last.key)
           /\ ~Has(pre.correction, last.key) =>
                  /\ correctionMemory[last.key].confidence = 500
                  /\ correctionMemory[last.key].approvedCount = 1
                  /\ correctionMemory[last.key].rejectedCount = 0
           /\ (/\ Has(pre.correction, last.key)
               /\ pre.correction[last.key].approvedCount = 1
               /\ pre.correction[last.key].rejectedCount = 0) =>
                  correctionMemory[last.key].confidence = 600

\* C2 witness: a pattern key created by one approval has been approved again.
C2_Witness ==
    /\ LastIs("rememberCorrectionApproval")
    /\ Has(pre.correction, last.key)
    /\ pre.correction[last.key].approvedCount = 1
    /\ pre.correction[last.key].rejectedCount = 0
    /\ correctionMemory[last.key].approvedCount = 2
    /\ Has(vendorMemory, "Supplier GmbH")
    /\ vendorMemory["Supplier GmbH"].confidence = 500

\* C3: reinforcing a key whose record exists with confidence c sets it to
\* min(1.0, c + 0.1); in the pattern store approvedCount grows by exactly 1
\* and rejectedCount is unchanged.
C3_ReinforceAddsTenth ==
    /\ (LastIs("rememberVendorCorrection") /\ Has(pre.vendor, last.key)) =>
           vendorMemory[last.key].confidence =
               Min(One, pre.vendor[last.key].confidence + 100)
    /\ (LastIs("rememberCorrectionApproval") /\ Has(pre.correction, last.key)) =>
           /\ correctionMemory[last.key].confidence =
                  Min(One, pre.correction[last.key].confidence + 100)
           /\ correctionMemory[last.key].approvedCount =
                  pre.correction[last.key].approvedCount + 1
           /\ correctionMemory[last.key].rejectedCount =
                  pre.correction[last.key].rejectedCount

\* C3 witness: the third reinforcement of a vendor seeded at 0.5 took it
\* from 0.7 to 0.8.
C3_Witness ==
    /\ LastIs("rememberVendorCorrection")
    /\ Has(pre.vendor, last.key)
    /\ pre.vendor[last.key].confidence = 700
    /\ vendorMemory[last.key].confidence = 800

\* C4: decaying a pattern key whose record exists with confidence c sets it
\* to max(0.0, c - 0.2), increases rejectedCount by exactly 1 and leaves
\* approvedCount unchanged.
C4_DecaySubtractsTwoTenths ==
    (LastIs("rememberCorrectionRejection") /\ Has(pre.correction, last.key)) =>
        /\ correctionMemory[last.key].confidence =
               Max(0, pre.correction[last.key].confidence - 200)
        /\ correctionMemory[last.key].rejectedCount =
               pre.correction[last.key].rejectedCount + 1
        /\ correctionMemory[last.key].approvedCount =
               pre.correction[last.key].approvedCount

\* C4 witness: one decay of a pattern at 0.5 left it at 0.3.
C4_Witness ==
    /\ LastIs("rememberCorrectionRejection")
    /\ Has(pre.correction, last.key)
    /\ pre.correction[last.key].confidence = 500
    /\ correctionMemory[last.key].confidence = 300

\* C5: decay on a pattern key that has no record is a no-op: the pattern
\* store is unchanged and no record is created for the key.
C5_DecayAbsentNoOp ==
    (LastIs("rememberCorrectionRejection") /\ ~Has(pre.correction, last.key)) =>
        /\ correctionMemory = pre.correction
        /\ ~Has(correctionMemory, last.key)

\* C5 witness: a key without a record was decayed while another pattern
\* had one.
C5_Witness ==
    /\ LastIs("rememberCorrectionRejection")
    /\ ~Has(pre.correction, last.key)
    /\ pre.correction # EmptyStore

----------------------------------------------------------------------------
(* Properties of the duplicate store (checked under SpecDup).              *)

\* C6: for every composite key, the n-th checkAndRecordInvoice call with
\* that key returns seenCount = n, with isDuplicate false exactly when
\* n = 1, whatever calls with other keys came in between.
C6_NthCallReturnsN ==
    LastIs("checkAndRecordInvoice") =>
        /\ last.seenCount = CallsOf(last.key)
        /\ last.isDuplicate = (CallsOf(last.key) >= 2)
        /\ duplicateMemory[last.key].seenCount = CallsOf(last.key)

\* C6 witness: the third call with one key, after calls with another key.
C6_Witness ==
    /\ LastIs("checkAndRecordInvoice")
    /\ CallsOf(last.key) = 3
    /\ last.seenCount = 3
    /\ last.isDuplicate
    /\ \E k \in DOMAIN calls : k # last.key

----------------------------------------------------------------------------
(* Properties of the pipelines (checked under SpecRun).                    *)

IsRun == LastIs("processInvoice")

\* the vendor record as it was when the last run began
PreVendor == pre.vendor[last.vendor]

\* the quantity pattern is absent or at least at the threshold when the
\* last run began
QtyPatternClear ==
    ~Has(pre.correction, QtyPattern) \/ pre.correction[QtyPattern].confidence >= 600

\* C7: a processInvoice run whose natural key was already recorded stops
\* right after the duplicate check and leaves the vendor, pattern and
\* resolution stores as they were, with or without feedback, in both
\* pipelines.
C7_DuplicateRunLeavesStores ==
    (IsRun /\ Has(pre.duplicate, last.key)) =>
        /\ last.isDuplicate
        /\ ~last.recalled
        /\ last.result.auditTrail[Len(last.result.auditTrail)].step = "duplicate_check"
        /\ vendorMemory = pre.vendor
        /\ correctionMemory = pre.correction
        /\ resolutionMemory = pre.resolution

\* C7 witness: an already recorded invoice of Freight & Co is run again
\* through the invoice-object pipeline, this time with feedback, against
\* stores that hold records.
C7_Witness ==
    /\ IsRun /\ last.variant = "invoice" /\ last.simulateHumanFeedback
    /\ last.vendor = "Freight & Co"
    /\ Has(pre.duplicate, last.key)
    /\ pre.vendor # EmptyStore /\ pre.correction # EmptyStore
    /\ pre.resolution # EmptyStore

\* C8 as stated: in every pipeline a non-duplicate run without feedback
\* for a vendor at confidence 0.6 applies the stored label and returns
\* requiresHumanReview = false, whatever the pattern store holds.
C8_Original ==
    (/\ IsRun /\ ~last.isDuplicate /\ ~last.simulateHumanFeedback
     /\ Has(pre.vendor, last.vendor) /\ PreVendor.confidence = 600) =>
        /\ last.result.normalizedInvoice.serviceDateLabel = PreVendor.serviceDateLabel
        /\ ~last.result.requiresHumanReview

\* C8 amended: such a run applies the stored label in every pipeline; it
\* returns requiresHumanReview = false in the invoice-object pipeline
\* whatever the pattern store holds, and in the five-argument pipeline
\* exactly when the quantity pattern is absent or has confidence >= 0.6.
C8_Amended ==
    (/\ IsRun /\ ~last.isDuplicate /\ ~last.simulateHumanFeedback
     /\ Has(pre.vendor, last.vendor) /\ PreVendor.confidence = 600) =>
        /\ last.result.normalizedInvoice.serviceDateLabel = PreVendor.serviceDateLabel
        /\ last.variant = "invoice" => ~last.result.requiresHumanReview
        /\ last.variant = "five" =>
               (last.result.requiresHumanReview = ~QtyPatternClear)

\* C8 witness: the invoice-object pipeline auto-applies the label of a
\* vendor at 0.6 while the quantity pattern is below the threshold.
C8_Witness ==
    /\ IsRun /\ last.variant = "invoice"
    /\ ~last.isDuplicate /\ ~last.simulateHumanFeedback
    /\ Has(pre.vendor, last.vendor) /\ PreVendor.confidence = 600
    /\ ~QtyPatternClear
    /\ ~last.result.requiresHumanReview
    /\ last.result.normalizedInvoice.serviceDateLabel = PreVendor.serviceDateLabel

\* proposedCorrections holds an entry made from the label
ListsPayload(proposedCorrections, label) ==
    \E i \in 1..Len(proposedCorrections) :
        proposedCorrections[i] \in
            {label, label \o " (needs review)",
             "Set serviceDateLabel = " \o label,
             "Set serviceDateLabel = " \o label \o " (needs review)"}

\* C9: a non-duplicate run for a vendor whose record has confidence 0.5
\* returns requiresHumanReview = true, leaves serviceDateLabel unapplied and
\* lists the stored vendor payload in proposedCorrections.
C9_Original ==
    (/\ IsRun /\ ~last.isDuplicate
     /\ Has(pre.vendor, last.vendor) /\ PreVendor.confidence = 500) =>
        /\ last.result.requiresHumanReview
        /\ last.result.normalizedInvoice.serviceDateLabel = Null
        /\ ListsPayload(last.result.proposedCorrections, PreVendor.serviceDateLabel)

\* C10: requiresHumanReview = false in a result implies that the vendor
\* record recalled by the run existed with confidence >= 0.6 (and is the
\* record the store still holds); a run that recalled no vendor record, or
\* one below 0.6, returns requiresHumanReview = true.
C10_AutoOnlyAboveThreshold ==
    IsRun =>
        /\ ~last.result.requiresHumanReview =>
               /\ last.recalled
               /\ ~IsNull(last.vendorMem)
               /\ last.vendorMem.confidence >= 600
               /\ Has(vendorMemory, last.vendor)
               /\ vendorMemory[last.vendor] = last.vendorMem
        /\ (last.recalled /\ IsNull(last.vendorMem)) => last.result.requiresHumanReview

\* C10 witness: the five-argument pipeline auto-handles a run at vendor
\* confidence 0.6.
C10_Witness ==
    /\ IsRun /\ last.variant = "five"
    /\ ~last.result.requiresHumanReview
    /\ ~IsNull(last.vendorMem) /\ last.vendorMem.confidence = 600

\* the recalled confidences of the last run (0 when nothing was recalled)
VendorConfidence == IF IsNull(last.vendorMem) THEN 0 ELSE last.vendorMem.confidence

CorrectionConfidence ==
    IF IsNull(last.correctionMem) THEN 0 ELSE last.correctionMem.confidence

\* C11 as stated: in every non-duplicate run of either pipeline,
\* confidenceScore is the recalled vendor confidence when a vendor record
\* exists and 0 when none exists, whatever the pattern confidence.
C11_Original ==
    (IsRun /\ ~last.isDuplicate) => last.result.confidenceScore = VendorConfidence

\* C11 amended: confidenceScore is 0 when no vendor record was recalled; it
\* is the recalled vendor confidence in the invoice-object pipeline and in
\* a five-argument run that asks for review; in a five-argument run that
\* is auto-handled it is the smaller of the vendor confidence and the
\* confidence of the recalled quantity pattern, if one was recalled.
C11_Amended ==
    (IsRun /\ ~last.isDuplicate) =>
        last.result.confidenceScore =
            IF /\ last.variant = "five" /\ ~last.result.requiresHumanReview
               /\ ~IsNull(last.correctionMem)
            THEN Min(VendorConfidence, CorrectionConfidence)
            ELSE VendorConfidence

\* C11 witness: an auto-handled five-argument run whose quantity pattern is
\* less trusted than its vendor.
C11_Witness ==
    /\ IsRun /\ last.variant = "five" /\ ~last.isDuplicate
    /\ ~last.result.requiresHumanReview
    /\ ~IsNull(last.correctionMem)
    /\ CorrectionConfidence < VendorConfidence
    /\ last.result.confidenceScore = CorrectionConfidence

\* C12: in either pipeline a non-duplicate run with no feedback that ends
\* with requiresHumanReview = false records one approval in the resolution
\* store under VENDOR:<vendor>:serviceDateLabel.
C12_Original ==
    (/\ IsRun /\ ~last.isDuplicate /\ ~last.simulateHumanFeedback
     /\ ~last.result.requiresHumanReview) =>
        resolutionMemory = ApprovalRecorded(pre.resolution, ServiceDateId(last.vendor))

\* C13: a processInvoice run without feedback leaves the vendor store and
\* the pattern store unchanged, for every invoice and every prior store
\* content, in both pipelines.
C13_NoFeedbackNoLearning ==
    (IsRun /\ ~last.simulateHumanFeedback) =>
        /\ vendorMemory = pre.vendor
        /\ correctionMemory = pre.correction

\* C13 witness: a first-seen Freight & Co invoice, whose Skonto term and
\* freight lines are detected, is run through the invoice-object pipeline
\* without feedback against a vendor below the threshold.
C13_Witness ==
    /\ IsRun /\ ~last.simulateHumanFeedback /\ ~last.isDuplicate
    /\ last.variant = "invoice" /\ last.vendor = "Freight & Co"
    /\ last.result.normalizedInvoice.discountTerms # Null
    /\ last.result.requiresHumanReview
    /\ Has(pre.vendor, last.vendor) /\ pre.correction # EmptyStore

\* the vendor key recalled by the last run has been reinforced since
VendorKeyReinforced ==
    /\ Has(vendorMemory, last.vendor)
    /\ vendorMemory[last.vendor] =
           [serviceDateLabel |-> "Leistungsdatum",
            confidence |-> IF IsNull(last.vendorMem) THEN 500
                           ELSE Min(1000, last.vendorMem.confidence + 100)]

\* the quantity pattern recalled by the last run has been reinforced since
QtyKeyReinforced ==
    /\ Has(correctionMemory, QtyPattern)
    /\ correctionMemory[QtyPattern] =
           IF IsNull(last.correctionMem)
           THEN [patternId |-> QtyPattern, description |-> "Quantity Mismatch",
                 action |-> "Use Delivery Note Quantity", confidence |-> 500,
                 approvedCount |-> 1, rejectedCount |-> 0]
           ELSE [last.correctionMem EXCEPT
                   !.confidence = Min(1000, @ + 100), !.approvedCount = @ + 1]

\* the recalled records are still what the stores hold
RecalledKeysUntouched ==
    /\ IF IsNull(last.vendorMem) THEN ~Has(vendorMemory, last.vendor)
       ELSE Has(vendorMemory, last.vendor) /\ vendorMemory[last.vendor] = last.vendorMem
    /\ IF IsNull(last.correctionMem) THEN ~Has(correctionMemory, QtyPattern)
       ELSE /\ Has(correctionMemory, QtyPattern)
            /\ correctionMemory[QtyPattern] = last.correctionMem

\* the last run added one approval under VENDOR:<vendor>:serviceDateLabel
ServiceDateApproved ==
    LET id == ServiceDateId(last.vendor)
        before == IF Has(pre.resolution, id) THEN pre.resolution[id].approvedCount ELSE 0
    IN  /\ Has(resolutionMemory, id)
        /\ resolutionMemory[id].approvedCount = before + 1
        /\ resolutionMemory[id].lastDecision = "approved"

\* C14 as stated: whenever a non-duplicate run receives feedback, the
\* recalled vendor key and the quantity pattern are reinforced and an
\* approval is recorded, also when the run was auto-handled.
C14_Original ==
    (IsRun /\ ~last.isDuplicate /\ last.simulateHumanFeedback) =>
        VendorKeyReinforced /\ QtyKeyReinforced /\ ServiceDateApproved

\* C14 amended: a non-duplicate run with feedback always records an
\* approval; it reinforces the recalled vendor key and the quantity pattern
\* when it asked for review, and leaves both as recalled when it was
\* auto-handled.
C14_Amended ==
    (IsRun /\ ~last.isDuplicate /\ last.simulateHumanFeedback) =>
        /\ ServiceDateApproved
        /\ last.result.requiresHumanReview =>
               VendorKeyReinforced /\ QtyKeyReinforced
        /\ ~last.result.requiresHumanReview => RecalledKeysUntouched

\* C14 witness: an auto-handled run with feedback that recalled both a
\* vendor record and the quantity pattern.
C14_Witness ==
    /\ IsRun /\ ~last.isDuplicate /\ last.simulateHumanFeedback
    /\ ~last.result.requiresHumanReview
    /\ ~IsNull(last.vendorMem) /\ ~IsNull(last.correctionMem)
    /\ last.variant = "five"

\* C15: no operation other than the reset of all stores lowers a vendor
\* record's confidence or removes a vendor record: across runs, feedback
\* and replayed approved or rejected corrections each vendor key's
\* confidence is non-decreasing.
C15_VendorConfidenceNeverLowered ==
    ~LastIs("resetAllMemories") =>
        \A v \in DOMAIN pre.vendor :
            /\ Has(vendorMemory, v)
            /\ vendorMemory[v].confidence >= pre.vendor[v].confidence

\* C15 witness: the replay of a rejected correction of the service date
\* label meets an existing vendor record holding another label.
C15_Witness ==
    /\ LastIs("applyHumanCorrections")
    /\ last.corrections[1].finalDecision = "rejected"
    /\ Has(pre.vendor, last.corrections[1].vendor)
    /\ pre.vendor[last.corrections[1].vendor].serviceDateLabel
           # vendorMemory[last.corrections[1].vendor].serviceDateLabel
    /\ vendorMemory[last.corrections[1].vendor].confidence
           > pre.vendor[last.corrections[1].vendor].confidence

\* the steps of the last run's audit trail, in order
AuditSteps ==
    [i \in 1..Len(last.result.auditTrail) |-> last.result.auditTrail[i].step]

\* C16 as stated: in either pipeline the result of a run over an already
\* recorded natural key has an audit trail of exactly one entry, whose step
\* is duplicate_check.
C16_Original ==
    (IsRun /\ Has(pre.duplicate, last.key)) => AuditSteps = <<"duplicate_check">>

\* C16 amended: the audit trail of a run over an already recorded natural
\* key is the single entry duplicate_check in the five-argument pipeline and
\* the two entries ingest, duplicate_check in the invoice-object pipeline.
C16_Amended ==
    (IsRun /\ Has(pre.duplicate, last.key)) =>
        AuditSteps = IF last.variant = "five" THEN <<"duplicate_check">>
                     ELSE <<"ingest", "duplicate_check">>

\* C16 witness: an invoice first run through the five-argument pipeline is
\* submitted again through the invoice-object pipeline.
C16_Witness ==
    /\ IsRun /\ last.variant = "invoice" /\ last.isDuplicate
    /\ Has(pre.duplicate, last.key)
    /\ last.seenCount = 2
    /\ Len(last.result.auditTrail) = 2

----------------------------------------------------------------------------
(* Further properties of the duplicate store (checked under SpecDup).      *)

\* C17: isDuplicateInvoice never changes the duplicate store and returns
\* true exactly when an earlier checkAndRecordInvoice call recorded the same
\* composite key.
C17_IsDuplicateReadOnly ==
    LastIs("isDuplicateInvoice") =>
        /\ duplicateMemory = pre.duplicate
        /\ last.returned = (CallsOf(last.key) > 0)

\* C17 witness: the read-only check answers true for a key recorded once
\* and leaves its seenCount at 1, while another key is not yet recorded.
C17_Witness ==
    /\ LastIs("isDuplicateInvoice")
    /\ last.returned
    /\ CallsOf(last.key) = 1
    /\ duplicateMemory[last.key].seenCount = 1
    /\ \E k \in DOMAIN duplicateMemory : k # last.key

----------------------------------------------------------------------------
(* Properties of the resolution store (checked under SpecRes).             *)

\* C18: for every decision id, after any sequence of recordApproval and
\* recordRejection calls, getResolutionStats gives an approvedCount equal to
\* the number of recordApproval calls for the id, a rejectedCount equal to
\* the number of recordRejection calls for it and the kind of the latest
\* call as lastDecision; an id never recorded has no record.
C18_ResolutionCountsCalls ==
    \A id \in ResIds :
        LET stats == getResolutionStats(Healthy, resolutionMemory, id)
            tally == TallyOf(id)
        IN  IF tally.approvals + tally.rejections = 0
            THEN IsNull(stats) /\ ~Has(resolutionMemory, id)
            ELSE /\ ~IsNull(stats)
                 /\ stats.memoryId = id
                 /\ stats.approvedCount = tally.approvals
                 /\ stats.rejectedCount = tally.rejections
                 /\ stats.lastDecision = tally.latest

\* C18 witness: an id approved twice and then rejected, another id first
\* rejected and then approved, and a third never recorded.
C18_Witness ==
    \E a, b, c \in ResIds :
        /\ Has(resolutionMemory, a) /\ Has(resolutionMemory, b)
        /\ ~Has(resolutionMemory, c)
        /\ resolutionMemory[a].approvedCount = 2
        /\ resolutionMemory[a].rejectedCount = 1
        /\ resolutionMemory[a].lastDecision = "rejected"
        /\ resolutionMemory[b].approvedCount = 1
        /\ resolutionMemory[b].rejectedCount = 1
        /\ resolutionMemory[b].lastDecision = "approved"

----------------------------------------------------------------------------
(* Further properties of the confidence stores (checked under SpecStore).  *)

\* the last call reinforced an existing vendor key and the record now
\* carries the label it supplied
VendorPayloadIsLatest ==
    (LastIs("rememberVendorCorrection") /\ Has(pre.vendor, last.key)) =>
        vendorMemory[last.key].serviceDateLabel = last.serviceDateLabel

\* C19 as stated: after a reinforce call on an existing key, in the vendor
\* store and in the pattern store alike, the record's payload (vendor:
\* serviceDateLabel; pattern: description and action) is the one supplied
\* by that call.
C19_Original ==
    /\ VendorPayloadIsLatest
    /\ (LastIs("rememberCorrectionApproval") /\ Has(pre.correction, last.key)) =>
           /\ correctionMemory[last.key].description = last.description
           /\ correctionMemory[last.key].action = last.action

\* C19 amended: a reinforce call on an existing vendor key stores the
\* label it supplied; a reinforce call on an existing pattern key keeps the
\* description and action the record already had.
C19_Amended ==
    /\ VendorPayloadIsLatest
    /\ (LastIs("rememberCorrectionApproval") /\ Has(pre.correction, last.key)) =>
           /\ correctionMemory[last.key].description = pre.correction[last.key].description
           /\ correctionMemory[last.key].action = pre.correction[last.key].action

\* C19 witness: an existing pattern is reinforced by a call that supplies
\* another description and action than the stored ones.
C19_Witness ==
    /\ LastIs("rememberCorrectionApproval") /\ Has(pre.correction, last.key)
    /\ pre.correction[last.key].description # last.description
    /\ pre.correction[last.key].action # last.action
    /\ correctionMemory[last.key].approvedCount = 2

----------------------------------------------------------------------------
(* Properties of repeated submissions (checked under SpecLong).            *)

\* C20: under sequential use with successful writes, of all the
\* processInvoice runs over one natural key only the first can change the
\* vendor, pattern or resolution store: every later run over the key,
\* through either pipeline and with or without feedback, leaves the three
\* stores as they were.
C20_OnlyFirstRunLearns ==
    (IsRun /\ CallsOf(last.key) >= 2) =>
        /\ vendorMemory = pre.vendor
        /\ correctionMemory = pre.correction
        /\ resolutionMemory = pre.resolution

\* C20 witness: the third submission of an invoice, now with feedback and
\* for a vendor that would be learnt from, after two other submissions.
C20_Witness ==
    /\ IsRun /\ CallsOf(last.key) = 3
    /\ last.simulateHumanFeedback
    /\ Has(pre.vendor, last.vendor) /\ pre.vendor[last.vendor].confidence < 600
    /\ pre.resolution # EmptyStore
    /\ duplicateMemory[last.key].seenCount = 3

----------------------------------------------------------------------------
(* Properties of the normalized output (checked under SpecRun).            *)

\* the invoice the last invoice-object run was given
InputInvoice == InvoiceOf(last.vendor, last.invoiceNumber)

NormalizedInvoice == last.result.normalizedInvoice

IsInvoiceRun == IsRun /\ last.variant = "invoice"

\* a detector of the last run was handed a record of at least 0.6 for the
\* pattern when it worked on the item
TrustedConsult(patternId, item) ==
    \E k \in 1..Len(last.consulted) :
        /\ last.consulted[k].patternId = patternId
        /\ last.consulted[k].item = item
        /\ ~IsNull(last.consulted[k].mem)
        /\ last.consulted[k].mem.confidence >= 600

\* serviceDateLabel is set only from a recalled vendor record of >= 0.6
LabelGated ==
    NormalizedInvoice.serviceDateLabel # Null =>
        /\ ~IsNull(last.vendorMem)
        /\ last.vendorMem.confidence >= 600
        /\ NormalizedInvoice.serviceDateLabel = last.vendorMem.serviceDateLabel

\* poNumber is set only under a PO pattern of >= 0.6
PoGated ==
    NormalizedInvoice.poNumber # InputInvoice.fields.poNumber =>
        TrustedConsult("AUTO_PO_MATCH_SINGLE_CANDIDATE", 0)

\* a line item's sku is set only under a freight pattern of >= 0.6
SkuGated ==
    \A i \in 1..Len(NormalizedInvoice.lineItems) :
        NormalizedInvoice.lineItems[i].sku # InputInvoice.fields.lineItems[i].sku =>
            TrustedConsult("FREIGHT_SERVICE_SKU_MAPPING", i)

\* C21 as stated: in every run each of serviceDateLabel, poNumber, line-item
\* sku, currency, discountTerms and pricesIncludeVAT is written only if the
\* memory record governing it exists with confidence >= 0.6 when it is
\* consulted; otherwise the field keeps its input value.
C21_Original ==
    IsRun =>
        /\ LabelGated
        /\ last.variant = "invoice" =>
               /\ PoGated /\ SkuGated
               /\ NormalizedInvoice.currency # InputInvoice.fields.currency =>
                      /\ Has(pre.correction, "CURRENCY_FROM_RAWTEXT")
                      /\ pre.correction["CURRENCY_FROM_RAWTEXT"].confidence >= 600
               /\ NormalizedInvoice.discountTerms # Null =>
                      /\ Has(pre.vendor, last.vendor)
                      /\ pre.vendor[last.vendor].confidence >= 600
               /\ NormalizedInvoice.pricesIncludeVAT =>
                      TrustedConsult("VAT_INCLUDED_IN_TOTAL", 0)

\* C21 amended: serviceDateLabel, poNumber and line-item sku are written
\* only under a governing record of >= 0.6 and otherwise keep their input
\* value; currency, discountTerms and pricesIncludeVAT are written by every
\* non-duplicate invoice-object run whose detector finds them, with no
\* memory record consulted, and keep their input value on a duplicate.
C21_Amended ==
    IsRun =>
        /\ LabelGated
        /\ last.variant = "invoice" =>
               /\ PoGated /\ SkuGated
               /\ NormalizedInvoice.currency =
                      IF /\ ~last.isDuplicate
                         /\ Falsy(InputInvoice.fields.currency)
                         /\ ~Falsy(inferCurrencyFromRawText(InputInvoice.rawText))
                      THEN inferCurrencyFromRawText(InputInvoice.rawText)
                      ELSE InputInvoice.fields.currency
               /\ NormalizedInvoice.discountTerms =
                      IF last.isDuplicate THEN Null
                      ELSE detectSkonto(last.vendor, InputInvoice.rawText)
               /\ NormalizedInvoice.pricesIncludeVAT =
                      (/\ ~last.isDuplicate
                       /\ detectVATIncluded(last.vendor, InputInvoice.rawText))

\* C21 witness: a Freight & Co run sets the sku of a line under a freight
\* pattern at 0.6 and writes the detected discount terms.
C21_Witness ==
    /\ IsInvoiceRun /\ ~last.isDuplicate
    /\ NormalizedInvoice.lineItems[1].sku = "FREIGHT"
    /\ TrustedConsult("FREIGHT_SERVICE_SKU_MAPPING", 1)
    /\ NormalizedInvoice.discountTerms # Null

\* the k-th record handed to a detector of the last run was at least 0.6
TrustedAt(k) ==
    /\ ~IsNull(last.consulted[k].mem)
    /\ last.consulted[k].mem.confidence >= 600

\* the recalled vendor record is at least 0.6
VendorTrusted == ~IsNull(last.vendorMem) /\ last.vendorMem.confidence >= 600

\* the recalled quantity pattern is at least 0.6
QtyTrusted == ~IsNull(last.correctionMem) /\ last.correctionMem.confidence >= 600

\* C22: within one non-duplicate run each candidate is gated by its own
\* record alone: the vendor label is applied exactly when the recalled
\* vendor record is >= 0.6, the quantity action is proposed exactly when the
\* recalled quantity pattern is >= 0.6, the PO number is applied exactly
\* when the PO pattern handed to the matcher is >= 0.6 and a line's sku
\* exactly when the freight pattern handed to the mapper for that line is
\* >= 0.6, whatever the other records are.
C22_EachCandidateOwnGate ==
    (IsRun /\ ~last.isDuplicate) =>
        /\ NormalizedInvoice.serviceDateLabel =
               IF VendorTrusted THEN last.vendorMem.serviceDateLabel ELSE Null
        /\ QtyTrusted <=>
               \E i \in 1..Len(last.result.proposedCorrections) :
                   last.result.proposedCorrections[i] = "Use Delivery Note Quantity"
        /\ \A k \in 1..Len(last.consulted) :
               /\ last.consulted[k].patternId = "AUTO_PO_MATCH_SINGLE_CANDIDATE" =>
                      (TrustedAt(k) <=>
                           NormalizedInvoice.poNumber # InputInvoice.fields.poNumber)
               /\ last.consulted[k].patternId = "FREIGHT_SERVICE_SKU_MAPPING" =>
                      (TrustedAt(k) <=>
                           NormalizedInvoice.lineItems[last.consulted[k].item].sku = "FREIGHT")

\* C22 witness: the vendor label is applied at vendor confidence >= 0.6
\* while the quantity pattern is at 0.5, and the PO number is applied while
\* no freight pattern is stored.
C22_Witness ==
    /\ IsInvoiceRun /\ ~last.isDuplicate
    /\ VendorTrusted /\ NormalizedInvoice.serviceDateLabel # Null
    /\ ~IsNull(last.correctionMem) /\ last.correctionMem.confidence = 500
    /\ NormalizedInvoice.poNumber # Null /\ InputInvoice.fields.poNumber = Null
    /\ ~Has(correctionMemory, "FREIGHT_SERVICE_SKU_MAPPING")

\* the place of a step in the order duplicate_check, recall, decide, learn
\* (0 for the steps outside that order)
PhaseRank(step) ==
    CASE step = "duplicate_check" -> 1
      [] step = "recall" -> 2
      [] step = "decide" -> 3
      [] step = "learn" -> 4
      [] OTHER -> 0

\* the audit trail of the last run lists the four phases in their order
PhasesInOrder ==
    \A i, j \in 1..Len(AuditSteps) :
        (i < j /\ PhaseRank(AuditSteps[i]) > 0 /\ PhaseRank(AuditSteps[j]) > 0) =>
            PhaseRank(AuditSteps[i]) <= PhaseRank(AuditSteps[j])

\* C23: in every non-duplicate run of either pipeline the phases occur in
\* the order duplicate_check, recall, decide, learn, and the run updates no
\* vendor, pattern or resolution store before its decision: the stores the
\* recall reads are the stores as they were when the run began.
C23_Original ==
    (IsRun /\ ~last.isDuplicate) =>
        /\ PhasesInOrder
        /\ last.atRecall = [vendor |-> pre.vendor, correction |-> pre.correction,
                            resolution |-> pre.resolution]

----------------------------------------------------------------------------
(* Properties of failing store files (checked under SpecFault)             *)

\* the last call was made while the named file could not be written
WriteFails(name) == "env" \in DOMAIN last /\ ~last.env[name].writable

\* the last call was made while the named file could not be read
ReadFails(name) == "env" \in DOMAIN last /\ ~last.env[name].readable

\* the four persisted stores by file name, now and when the last call began
StoreOf(name) ==
    CASE name = "vendorMemory.json" -> vendorMemory
      [] name = "correctionMemory.json" -> correctionMemory
      [] name = "resolutionMemory.json" -> resolutionMemory
      [] name = "duplicateMemory.json" -> duplicateMemory

PreStoreOf(name) ==
    CASE name = "vendorMemory.json" -> pre.vendor
      [] name = "correctionMemory.json" -> pre.correction
      [] name = "resolutionMemory.json" -> pre.resolution
      [] name = "duplicateMemory.json" -> pre.duplicate

\* the file the last store call loads and saves
FileOfCall ==
    CASE last.name = "rememberVendorCorrection" -> "vendorMemory.json"
      [] last.name \in {"rememberCorrectionApproval", "rememberCorrectionRejection"} ->
             "correctionMemory.json"
      [] last.name \in {"recordApproval", "recordRejection"} -> "resolutionMemory.json"
      [] last.name = "checkAndRecordInvoice" -> "duplicateMemory.json"

IsStoreCall ==
    last.name \in {"rememberVendorCorrection", "rememberCorrectionApproval",
                   "rememberCorrectionRejection", "recordApproval", "recordRejection",
                   "checkAndRecordInvoice"}

\* the last run returned a whole result: a decision, a score, and a trail
\* that ends with the duplicate exit or contains the decide entry
RunReturned ==
    /\ last.result.requiresHumanReview \in BOOLEAN
    /\ last.result.confidenceScore \in 0..One
    /\ Len(AuditSteps) >= 1
    /\ \/ last.isDuplicate /\ AuditSteps[Len(AuditSteps)] = "duplicate_check"
       \/ ~last.isDuplicate /\ \E i \in 1..Len(AuditSteps) : AuditSteps[i] = "decide"

\* C24: when the write of a store file fails during a reinforce, decay,
\* recordApproval, recordRejection or checkAndRecordInvoice call, the call
\* still returns (checkAndRecordInvoice with its verdict and count), the
\* persisted store is what it was before the call, and a processInvoice run
\* made while a store file cannot be written leaves that file as it was and
\* still returns a whole result.
C24_WriteFailureSwallowed ==
    /\ (IsStoreCall /\ WriteFails(FileOfCall)) =>
           StoreOf(FileOfCall) = PreStoreOf(FileOfCall)
    /\ (LastIs("checkAndRecordInvoice") /\ WriteFails("duplicateMemory.json")) =>
           /\ last.isDuplicate = Has(pre.duplicate, last.key)
           /\ last.seenCount =
                  IF Has(pre.duplicate, last.key) THEN pre.duplicate[last.key].seenCount + 1
                  ELSE 1
    /\ IsRun =>
           /\ RunReturned
           /\ \A name \in Files : WriteFails(name) => StoreOf(name) = PreStoreOf(name)

\* a run with feedback made while the vendor file, which already holds a
\* record, cannot be written
C24_Witness ==
    /\ IsRun
    /\ last.simulateHumanFeedback
    /\ ~last.isDuplicate
    /\ WriteFails("vendorMemory.json")
    /\ pre.vendor # EmptyStore

----------------------------------------------------------------------------
(* Properties of two processes on the same files (checked under SpecRace)  *)

\* no process is inside a store call
AllIdle == \A p \in Procs : procs[p].pc = "idle"

\* the confidence of a vendor record reinforced n times from absent
ReinforcedTimes(n) == Min(One, Seed + Reinforce * (n - 1))

\* C25 as stated: when two processes run load-mutate-save calls on the same
\* store with their loads and saves interleaved in any order, the final
\* store holds the effect of every call: each vendor reinforced n times has
\* a record whose confidence is that of n reinforcements.
C25_Original ==
    AllIdle =>
        \A v \in RaceVendors :
            RaceTally(v).done > 0 =>
                /\ Has(vendorMemory, v)
                /\ vendorMemory[v].confidence = ReinforcedTimes(RaceTally(v).done)

\* C26 as stated: among any number of checkAndRecordInvoice calls for one
\* composite key, however their loads and saves interleave, exactly one
\* returns isDuplicate = false and the stored seenCount ends equal to the
\* number of calls.
C26_Original ==
    AllIdle =>
        \A n \in RaceNumbers :
            LET key == DuplicateKey("Supplier GmbH", n, RunDate)
            IN  RaceTally(key).done > 0 =>
                    /\ RaceTally(key).first = 1
                    /\ Has(duplicateMemory, key)
                    /\ duplicateMemory[key].seenCount = RaceTally(key).done

----------------------------------------------------------------------------
(* The resolution store as an input (checked under SpecRun)                *)

\* resolution stores other than the one the last run started from: none,
\* one more approval or rejection of the vendor's label, and a history of
\* rejections only
OtherResolutions ==
    {EmptyStore,
     ApprovalRecorded(pre.resolution, ServiceDateId(last.vendor)),
     RejectionRecorded(pre.resolution, ServiceDateId(last.vendor)),
     RejectionRecorded(RejectionRecorded(EmptyStore, ServiceDateId(last.vendor)),
                       QtyPattern)} \ {pre.resolution}

\* the last run made again on the same invoice and flag, from the same
\* vendor, pattern and duplicate stores and the given resolution store
RunAgainWith(resolution) ==
    IF last.variant = "invoice"
    THEN processInvoice(last.env, [pre EXCEPT !.resolution = resolution], InputInvoice,
                        last.simulateHumanFeedback)
    ELSE processInvoice5(last.env, [pre EXCEPT !.resolution = resolution], last.vendor,
                         last.invoiceNumber, RunDate, "Widget Supply",
                         last.simulateHumanFeedback)

\* C27: the resolution store is never a decision input: a run of either
\* processInvoice made again from the same vendor, pattern and duplicate
\* stores but a different resolution store returns the same
\* requiresHumanReview, confidenceScore, normalized fields and
\* proposedCorrections and leaves the same vendor and pattern stores.
C27_ResolutionNotAnInput ==
    IsRun =>
        \A resolution \in OtherResolutions :
            LET again == RunAgainWith(resolution)
            IN  /\ again.result.requiresHumanReview = last.result.requiresHumanReview
                /\ again.result.confidenceScore = last.result.confidenceScore
                /\ again.result.normalizedInvoice = last.result.normalizedInvoice
                /\ again.result.proposedCorrections = last.result.proposedCorrections
                /\ again.vendor = vendorMemory
                /\ again.correction = correctionMemory

\* a run with feedback that is accepted without review, learns into the
\* vendor store, and started from a resolution store that had records
C27_Witness ==
    /\ IsRun
    /\ ~last.isDuplicate
    /\ last.simulateHumanFeedback
    /\ ~last.result.requiresHumanReview
    /\ pre.resolution # EmptyStore
    /\ vendorMemory # pre.vendor
    /\ Cardinality(OtherResolutions) = 4

----------------------------------------------------------------------------
(* Keys of the persisted stores over time (checked under SpecFault)        *)

KeysKept(name) == DOMAIN PreStoreOf(name) \subseteq DOMAIN StoreOf(name)

\* the named store holds one record and that record is a first one
OneFreshRecord(name) ==
    /\ Cardinality(DOMAIN StoreOf(name)) = 1
    /\ \A k \in DOMAIN StoreOf(name) :
           CASE name = "vendorMemory.json" -> vendorMemory[k].confidence = Seed
             [] name = "correctionMemory.json" -> correctionMemory[k].confidence = Seed
             [] name = "resolutionMemory.json" ->
                    resolutionMemory[k].approvedCount + resolutionMemory[k].rejectedCount = 1
             [] name = "duplicateMemory.json" -> duplicateMemory[k].seenCount = 1

----------------------------------------------------------------------------
(* Learning to accept (checked under SpecApproveFair)                      *)

Accepted == IsRun /\ ~last.result.requiresHumanReview

\* C29: from empty stores, when invoices of one vendor under pairwise
\* distinct natural keys are processed one after another, each with
\* approving feedback, a run eventually returns requiresHumanReview = false,
\* and that run is among the first three.
C29_AcceptedByThirdRun == <>(Accepted /\ nOps <= 3)

\* the third run of a history is the first to be accepted: it started from
\* a vendor record at exactly the threshold
C29_Witness ==
    /\ Accepted
    /\ nOps = 3
    /\ PreVendor.confidence = THRESHOLD
    /\ last.vendorMem.confidence = THRESHOLD

----------------------------------------------------------------------------
(* Replayed human corrections (checked under SpecRun)                      *)

\* the last call replayed corrections whose finalDecision is rejected
RejectedReplay ==
    /\ LastIs("applyHumanCorrections")
    /\ \A i \in 1..Len(last.corrections) : last.corrections[i].finalDecision = "rejected"

\* no record of the store is new and none has a higher confidence than before
NothingRaised(before, now) ==
    \A k \in DOMAIN now : Has(before, k) /\ now[k].confidence <= before[k].confidence

\* C30 as stated: replaying a human correction whose finalDecision is
\* rejected never increases the confidence of any vendor record or pattern
\* record and never creates a new confidence record.
C30_Original ==
    RejectedReplay =>
        /\ NothingRaised(pre.vendor, vendorMemory)
        /\ NothingRaised(pre.correction, correctionMemory)

----------------------------------------------------------------------------
(* Reinforcements within one run (checked under SpecRun)                   *)

\* every record of the store is at most one reinforcement above what it
\* was, and a record that was absent is at the seed
AtMostOnceReinforced(before, now) ==
    \A k \in DOMAIN now :
        IF Has(before, k)
        THEN now[k].confidence <= before[k].confidence + Reinforce
        ELSE now[k].confidence = Seed

\* C31 as stated: a single processInvoice run reinforces any one confidence
\* key at most once: every vendor and pattern record ends the run at most
\* 0.1 above where it began, and a key absent before the run ends the run
\* absent or at 0.5.
C31_Original ==
    IsRun =>
        /\ AtMostOnceReinforced(pre.vendor, vendorMemory)
        /\ AtMostOnceReinforced(pre.correction, correctionMemory)

----------------------------------------------------------------------------
(* Identity of invoices in the duplicate store (checked under SpecDup)     *)

\* the last call reported its invoice as a duplicate
ReportedDuplicate ==
    \/ LastIs("checkAndRecordInvoice") /\ last.isDuplicate
    \/ LastIs("isDuplicateInvoice") /\ last.returned

\* C32 as stated: the duplicate store treats two invoices as the same only
\* if their vendor, invoiceNumber and invoiceDate are all equal: an invoice
\* is reported as a duplicate only of a recorded invoice with its own
\* vendor, its own invoiceNumber and its own invoiceDate.
C32_Original ==
    ReportedDuplicate =>
        /\ Has(pre.duplicate, last.key)
        /\ pre.duplicate[last.key].vendor = last.vendor
        /\ pre.duplicate[last.key].invoiceNumber = last.invoiceNumber
        /\ pre.duplicate[last.key].invoiceDate = last.invoiceDate

----------------------------------------------------------------------------
(* Acceptance over time (checked under SpecLong)                           *)

\* the last run is a non-duplicate run for a vendor of which a
\* non-duplicate run, this one or an earlier one, was accepted without review
OnceAccepted ==
    /\ IsRun
    /\ ~last.isDuplicate
    /\ Has(calls, AcceptedKey(last.vendor))

\* C33 as stated: once a non-duplicate run for a vendor has returned
\* requiresHumanReview = false, every later non-duplicate run for that
\* vendor returns requiresHumanReview = false too, in both pipelines and
\* whatever runs, feedback and pattern rejections came in between.
C33_Original == OnceAccepted => ~last.result.requiresHumanReview

\* C33 amended: once a non-duplicate run for a vendor has been accepted,
\* every later non-duplicate run of the invoice-object pipeline for that
\* vendor is accepted, and a later non-duplicate run of the five-argument
\* pipeline is accepted exactly when the quantity pattern is absent or at
\* least at 0.6 when the run begins.
C33_Amended ==
    OnceAccepted =>
        IF last.variant = "invoice"
        THEN ~last.result.requiresHumanReview
        ELSE ~last.result.requiresHumanReview <=> QtyPatternClear

\* a five-argument run sent to review after an accepted run of the vendor
\* and a rejection of the quantity pattern
C33_Witness ==
    /\ OnceAccepted
    /\ last.variant = "five"
    /\ last.result.requiresHumanReview
    /\ Has(pre.correction, QtyPattern)
    /\ pre.correction[QtyPattern].rejectedCount >= 1
    /\ pre.vendor[last.vendor].confidence >= THRESHOLD

----------------------------------------------------------------------------
(* Approvals against rejections (checked under SpecStore)                  *)

\* the pattern store after two approvals and then one rejection of a pattern
TwoUpOneDown(file, patternId) ==
    LET once == rememberCorrectionApproval(Healthy, file, patternId,
                                           "Quantity Mismatch", "Use Delivery Note Quantity")
        twice == rememberCorrectionApproval(Healthy, once, patternId,
                                            "Quantity Mismatch", "Use Delivery Note Quantity")
    IN  rememberCorrectionRejection(Healthy, twice, patternId)

\* C34: one rejection cancels exactly two approvals when nothing is
\* clamped: for every pattern record with confidence c <= 0.8, reinforce,
\* reinforce, decay in that order leaves the confidence at c, with
\* approvedCount raised by 2 and rejectedCount by 1.
C34_RejectionCancelsTwoApprovals ==
    \A p \in DOMAIN correctionMemory :
        correctionMemory[p].confidence <= 800 =>
            LET after == TwoUpOneDown(correctionMemory, p)
            IN  /\ after[p].confidence = correctionMemory[p].confidence
                /\ after[p].approvedCount = correctionMemory[p].approvedCount + 2
                /\ after[p].rejectedCount = correctionMemory[p].rejectedCount + 1
                /\ after = [correctionMemory EXCEPT ![p] = after[p]]

\* a pattern record at 0.8, which the two approvals take to 1.0 exactly,
\* beside one that a rejection has lowered to 0.3
C34_Witness ==
    \E p, q \in DOMAIN correctionMemory :
        /\ correctionMemory[p].confidence = 800
        /\ correctionMemory[q].confidence = 300
        /\ correctionMemory[q].rejectedCount = 1
        /\ TwoUpOneDown(correctionMemory, p)[p].confidence = 800
        /\ TwoUpOneDown(correctionMemory, q)[q].confidence = 300

----------------------------------------------------------------------------
(* What a store call leaves alone (checked under SpecFrame)                *)

\* the keys of the named store, before or after the last call, other than
\* the key of the call
OtherKeys(name) == (DOMAIN PreStoreOf(name) \cup DOMAIN StoreOf(name)) \ {last.key}

\* C35: a reinforce, decay, recordApproval, recordRejection or
\* checkAndRecordInvoice call on key k that can read its store changes at
\* most the record of k in that store: every other key of the store keeps
\* its record, and the other three stores keep their whole content.
C35_OnlyOwnRecordChanges ==
    (IsStoreCall /\ ~ReadFails(FileOfCall)) =>
        /\ \A name \in Files \ {FileOfCall} : StoreOf(name) = PreStoreOf(name)
        /\ \A k \in OtherKeys(FileOfCall) :
               /\ Has(PreStoreOf(FileOfCall), k)
               /\ Has(StoreOf(FileOfCall), k)
               /\ StoreOf(FileOfCall)[k] = PreStoreOf(FileOfCall)[k]

\* an approval recorded for one id, changing the store, while the store
\* holds another id and another store holds records too
C35_Witness ==
    /\ LastIs("recordApproval")
    /\ ~ReadFails("resolutionMemory.json")
    /\ resolutionMemory # pre.resolution
    /\ OtherKeys("resolutionMemory.json") # {}
    /\ vendorMemory # EmptyStore

====
